---- MODULE Spec2Model ----
(***************************************************************************)
(* Model of the security core (src-tauri/src/security.rs) and of the      *)
(* bundling core (src-tauri/src/pumpfun_bundler.rs) of the wallet backend. *)
(*                                                                         *)
(* Time is counted in whole seconds.  Instant (monotonic) and Utc (wall    *)
(* clock) are separate clocks, as in the source.                           *)
(***************************************************************************)
EXTENDS Integers, Sequences, FiniteSets, TLC

(***************************************************************************)
(* Bounds of the model                                                     *)
(***************************************************************************)
\* number of threads that call into the shared SecurityManager concurrently
NumThreads == 2
\* number of clock advances in one behaviour
MaxTicks == 2
\* calls made against one rate window beyond the category limit
ExtraCalls == 1

(***************************************************************************)
(* Program constants                                                       *)
(***************************************************************************)
\* RateLimitConfig::default
MaxRequestsPerMinute == 60
MaxTransactionsPerHour == 100
\* the window lengths written into check_rate_limit
RequestWindowSecs == 60
TransactionWindowSecs == 3600

Threads == 1..NumThreads
Clients == {"c1", "c2"}
\* the two categories check_rate_limit knows, and one it does not
LimitedTypes == {"request", "transaction"}
RequestTypes == LimitedTypes \cup {"other"}

\* RateLimitConfig values: the default, and the limit of 5 per window
DefaultRateLimitConfig ==
    [max_requests_per_minute |-> MaxRequestsPerMinute,
     max_transactions_per_hour |-> MaxTransactionsPerHour]
RateLimitConfigs ==
    {DefaultRateLimitConfig,
     [max_requests_per_minute |-> 5, max_transactions_per_hour |-> 5]}

\* the clock advances by one second or by one window length
TickSteps == {1, RequestWindowSecs, TransactionWindowSecs}

VARIABLES
    \* ---- SecurityManager: rate limiting ----
    rate_limit_config,    \* SecurityManager.rate_limit_config
    request_tracker,      \* DashMap client -> (count, last_reset)
    transaction_tracker,  \* DashMap client -> (count, last_reset)
    instant,              \* Instant::now(), seconds
    ticks,                \* clock advances so far
    \* ---- callers of check_rate_limit ----
    client_id,            \* the client_id argument of the calls
    request_type,         \* the request_type argument of the calls
    rl_pc,                \* per thread: "idle", "get_mut", "insert"
    rl_now,               \* per thread: the local `now` of the running call
    rl_result,            \* per thread: what the last call returned
    \* ---- history of the window of (client_id, request_type) ----
    calls_in_window,      \* calls evaluated since the window was created or reset
    accepted_in_window,   \* of these, the calls that returned Ok
    reset_from,           \* the count the latest call overwrote by a reset, -1 if it reset nothing
    \* ---- SecurityManager: transfer policies ----
    banned_addresses,     \* DashMap address -> expiry (Utc seconds)
    whitelist,            \* the keys of DashMap address -> true
    blacklist,            \* the keys of DashMap address -> true
    whitelist_enabled,    \* the whitelist_enabled flag validate_transaction reads
    transaction_history,  \* DashMap <<address, date>> -> sequence of Utc times
    utc_now,              \* Utc::now(), seconds
    utc_ticks,            \* wall clock advances so far
    validation,           \* the validate_transaction call that has just returned, if any
    last_ban,             \* per address: the expiry the latest ban_address call recorded, -1 if none
    ban_until,            \* per address: the latest expiry any ban_address call recorded, -1 if none
    streak,               \* the validate_transaction calls one sender made in a row
    \* ---- PumpfunInterface: launch_snipe_bundle and the relay ----
    launch_config,        \* the LaunchSnipeConfig of the call
    metadata,             \* the PumpfunTokenMetadata of the call
    final_snipe_amount,   \* the local final_snipe_amount, None until it is computed
    private_key_bytes,    \* the local private_key_bytes, None until decrypt_data returns it
    jito_enabled,         \* jito_config.enabled
    randomize_timing,     \* mev_protection.randomize_timing
    ls_pc,                \* the position of the launch_snipe_bundle call
    ls_outcome,           \* what launch_snipe_bundle returned
    events,               \* the steps of the call so far, in order
    relay_requests,       \* the bundle requests posted to the relay, in order
    relay_responses,      \* how each post ended and what send_via_jito_bundle returned
    \* ---- PumpfunInterface: execute_bundle_buy ----
    bundle_wallets,       \* the number of wallets of the call; the wallets are 1..n
    use_mev_protection,   \* the use_mev_protection argument
    eb_pc,                \* the position of the execute_bundle_buy call
    transactions,         \* the local `transactions`
    wallet_key_bytes,     \* the private_key_bytes of the rounds of execute_bundle_buy so far
    signatures,           \* the local `signatures`
    eb_outcome,           \* what the execute_bundle_buy command returned
    eb_events,            \* the sends and delays of the call so far, in order
    \* ---- AsyncUtils: execute_with_retry ----
    max_retries,          \* the max_retries argument of execute_with_retry
    retry_pc,             \* the position of the execute_with_retry call
    attempt,              \* the loop variable `attempt`
    retry_log,            \* the attempts and the delays of the call so far, in order
    retry_result,         \* what execute_with_retry returned
    \* ---- the tauri commands of lib.rs ----
    app_lock,             \* the holder of the Mutex<AppState>, or "free"
    rate_limiter,         \* AppState.rate_limiter, client key -> (count, last_request)
    cmd_pc,               \* per command: "idle", "lock", "gate", "network", "stuck"
    cmd_log,              \* per command: the steps of its running or latest call, in order
    cmd_result,           \* per command: what its latest call returned
    cmd_calls,            \* command calls made so far
    \* ---- a SecureKey of security.rs ----
    key_material,         \* SecureKey.key_material, the buffer of key bytes
    access_count,         \* SecureKey.access_count
    last_accessed,        \* SecureKey.last_accessed
    sk_pc,                \* "live" until the SecureKey is dropped, then "dropped"
    sk_returned,          \* what the callback of the latest access returned, or "none"
    \* ---- SecurityManager: encrypt_data and decrypt_data ----
    enc_key,              \* the key argument of encrypt_data
    data,                 \* the data argument of encrypt_data
    encrypted,            \* what encrypt_data returned
    encrypted_data,       \* the encrypted_data argument of decrypt_data, the blob as it is stored
    blob_change,          \* what happened to the blob since encrypt_data returned it
    dec_key,              \* the key argument of decrypt_data
    decrypted,            \* what decrypt_data returned
    cb_pc,                \* "encrypt", "stored", "done"
    \* ---- SecurityManager: derive_key ----
    derive_log,           \* the derive_key calls so far, each with its arguments and its result
    \* ---- PerformanceCache ----
    memory_cache,         \* PerformanceCache.memory_cache, key -> (data, created_at)
    disk_cache,           \* the entries of PerformanceCache.disk_cache, None when caching is off
    hit_count,            \* PerformanceCache.hit_count
    miss_count,           \* PerformanceCache.miss_count
    cache_ttl,            \* config.cache_ttl
    cache_now,            \* Instant::now() of the cache
    cache_get,            \* the get call that has just returned, if any
    last_set,             \* per key, the data and the time of the latest set call
    \* ---- ConnectionPool ----
    connections,          \* ConnectionPool.connections, endpoint -> the connections of its pool
    connection_pool_size, \* config.connection_pool_size
    active_connections,   \* ConnectionPool.active_connections
    pool_log,             \* the get_connection and return_connection calls so far, with what they returned
    \* ---- generate_wallet and transfer_tokens of lib.rs ----
    wallet,               \* the Wallet generate_wallet returned: its salt and its encrypted_private_key
    wallet_private_key,   \* keypair.secret() of generate_wallet, the key that was encrypted
    wallet_password,      \* the password argument of generate_wallet
    transfer_password,    \* the password argument of transfer_tokens
    transfer_private_key, \* what decrypt_data returned to transfer_tokens, if it was reached
    transfer_result,      \* what transfer_tokens returned
    wt_pc                 \* "new", "created" once generate_wallet returned a wallet, "done"

rateVars == <<rate_limit_config, request_tracker, transaction_tracker, instant, ticks,
              client_id, request_type, rl_pc, rl_now, rl_result,
              calls_in_window, accepted_in_window, reset_from>>

policyVars == <<banned_addresses, whitelist, blacklist, whitelist_enabled,
                transaction_history, utc_now, utc_ticks, validation, last_ban, ban_until,
                streak>>

launchVars == <<launch_config, metadata, final_snipe_amount, private_key_bytes,
                randomize_timing, ls_pc, ls_outcome, events>>

buyVars == <<bundle_wallets, use_mev_protection, eb_pc, transactions, wallet_key_bytes,
             signatures, eb_outcome, eb_events>>

bundleVars == <<launchVars, buyVars, jito_enabled, relay_requests, relay_responses>>

retryVars == <<max_retries, retry_pc, attempt, retry_log, retry_result>>

cmdVars == <<app_lock, rate_limiter, cmd_pc, cmd_log, cmd_result, cmd_calls>>

secureKeyVars == <<key_material, access_count, last_accessed, sk_pc, sk_returned>>

cipherVars == <<enc_key, data, encrypted, encrypted_data, blob_change, dec_key,
                decrypted, cb_pc>>

deriveVars == <<derive_log>>

cacheVars == <<memory_cache, disk_cache, hit_count, miss_count, cache_ttl, cache_now,
               cache_get, last_set>>

poolVars == <<connections, connection_pool_size, active_connections, pool_log>>

walletVars == <<wallet, wallet_private_key, wallet_password, transfer_password,
                transfer_private_key, transfer_result, wt_pc>>

vars == <<rateVars, policyVars, bundleVars, retryVars, cmdVars, secureKeyVars,
          cipherVars, deriveVars, cacheVars, poolVars, walletVars>>

\* what the operations of one component leave alone
notRate == <<policyVars, bundleVars, retryVars, cmdVars, secureKeyVars, cipherVars,
             deriveVars, cacheVars, poolVars, walletVars>>
notPolicy == <<rateVars, bundleVars, retryVars, cmdVars, secureKeyVars, cipherVars,
               deriveVars, cacheVars, poolVars, walletVars>>
notBundle == <<rateVars, policyVars, retryVars, cmdVars, secureKeyVars, cipherVars,
               deriveVars, cacheVars, poolVars, walletVars>>
notRetry == <<rateVars, policyVars, bundleVars, cmdVars, secureKeyVars, cipherVars,
              deriveVars, cacheVars, poolVars, walletVars>>
notCmd == <<rateVars, policyVars, bundleVars, retryVars, secureKeyVars, cipherVars,
            deriveVars, cacheVars, poolVars, walletVars>>
notSecureKey == <<rateVars, policyVars, bundleVars, retryVars, cmdVars, cipherVars,
                  deriveVars, cacheVars, poolVars, walletVars>>
notCipher == <<rateVars, policyVars, bundleVars, retryVars, cmdVars, secureKeyVars,
               deriveVars, cacheVars, poolVars, walletVars>>
notDerive == <<rateVars, policyVars, bundleVars, retryVars, cmdVars, secureKeyVars,
               cipherVars, cacheVars, poolVars, walletVars>>
notCache == <<rateVars, policyVars, bundleVars, retryVars, cmdVars, secureKeyVars,
              cipherVars, deriveVars, poolVars, walletVars>>
notPool == <<rateVars, policyVars, bundleVars, retryVars, cmdVars, secureKeyVars,
             cipherVars, deriveVars, cacheVars, walletVars>>
notWallet == <<rateVars, policyVars, bundleVars, retryVars, cmdVars, secureKeyVars,
               cipherVars, deriveVars, cacheVars, poolVars>>

(***************************************************************************)
(* DashMap helpers                                                         *)
(***************************************************************************)
EmptyMap == [k \in {} |-> 0]
MapInsert(m, k, v) == [x \in DOMAIN m \cup {k} |-> IF x = k THEN v ELSE m[x]]
MapRemoveAll(m, ks) == [x \in DOMAIN m \ ks |-> m[x]]

(***************************************************************************)
(* check_rate_limit                                                        *)
(***************************************************************************)
Tracker(type) == IF type = "request" THEN request_tracker ELSE transaction_tracker
TrackerNext(type) == IF type = "request" THEN request_tracker' ELSE transaction_tracker'

Limit(type) ==
    IF type = "request" THEN rate_limit_config.max_requests_per_minute
    ELSE rate_limit_config.max_transactions_per_hour

Window(type) == IF type = "request" THEN RequestWindowSecs ELSE TransactionWindowSecs

\* if last_reset.elapsed() > window { *count = 0; *last_reset = now; }
EntryAfterResetEager(e, now, elapsed, window) ==
    IF elapsed >= window THEN [count |-> 0, last_reset |-> now] ELSE e

EntryAfterReset(e, now, elapsed, window) ==
    IF elapsed > window THEN [count |-> 0, last_reset |-> now] ELSE e

\* the body of `if let Some(mut entry) = tracker.get_mut(client_id)`: the entry is
\* written through the guard, so what was written before an early return stays
CheckEntryOffByOne(e, now, elapsed, window, limit) ==
    LET e1 == EntryAfterReset(e, now, elapsed, window) IN
    IF e1.count > limit
    THEN [entry |-> e1, result |-> "RateLimitExceeded"]
    ELSE [entry |-> [e1 EXCEPT !.count = @ + 1], result |-> "Ok"]

CheckEntryCountsRejected(e, now, elapsed, window, limit) ==
    LET e1 == EntryAfterReset(e, now, elapsed, window) IN
    IF e1.count >= limit
    THEN [entry |-> [e1 EXCEPT !.last_reset = now], result |-> "RateLimitExceeded"]
    ELSE [entry |-> [e1 EXCEPT !.count = @ + 1], result |-> "Ok"]

CheckEntry(e, now, elapsed, window, limit) ==
    LET e1 == EntryAfterReset(e, now, elapsed, window) IN
    IF e1.count >= limit
    THEN [entry |-> e1, result |-> "RateLimitExceeded"]
    ELSE [entry |-> [e1 EXCEPT !.count = @ + 1], result |-> "Ok"]

SetTracker(type, m) ==
    IF type = "request"
    THEN request_tracker' = m /\ UNCHANGED transaction_tracker
    ELSE transaction_tracker' = m /\ UNCHANGED request_tracker

\* let now = Instant::now();
CheckBegin(t) ==
    /\ rl_pc[t] = "idle"
    /\ request_type \in LimitedTypes =>
           calls_in_window < Limit(request_type) + ExtraCalls
    /\ rl_pc' = [rl_pc EXCEPT ![t] = "get_mut"]
    /\ rl_now' = [rl_now EXCEPT ![t] = instant]
    /\ UNCHANGED <<rate_limit_config, request_tracker, transaction_tracker, instant, ticks,
                   client_id, request_type, rl_result,
                   calls_in_window, accepted_in_window, reset_from>>
    /\ UNCHANGED notRate

\* match request_type { ... tracker.get_mut(client_id) ... }: the shard lock is held
\* for the whole `Some` branch and is released before the `else` branch runs
CheckGetMut(t) ==
    /\ rl_pc[t] = "get_mut"
    /\ IF request_type \notin LimitedTypes
       THEN /\ rl_pc' = [rl_pc EXCEPT ![t] = "idle"]
            /\ rl_result' = [rl_result EXCEPT ![t] = "Ok"]
            /\ UNCHANGED <<request_tracker, transaction_tracker,
                           calls_in_window, accepted_in_window, reset_from>>
       ELSE IF client_id \in DOMAIN Tracker(request_type)
       THEN LET e == Tracker(request_type)[client_id]
                elapsed == instant - e.last_reset
                out == CheckEntry(e, rl_now[t], elapsed, Window(request_type),
                                  Limit(request_type))
                wasReset == elapsed > Window(request_type)
                ok == IF out.result = "Ok" THEN 1 ELSE 0
            IN  /\ SetTracker(request_type,
                              [Tracker(request_type) EXCEPT ![client_id] = out.entry])
                /\ rl_pc' = [rl_pc EXCEPT ![t] = "idle"]
                /\ rl_result' = [rl_result EXCEPT ![t] = out.result]
                /\ calls_in_window' = IF wasReset THEN 1 ELSE calls_in_window + 1
                /\ accepted_in_window' = IF wasReset THEN ok ELSE accepted_in_window + ok
                /\ reset_from' = IF wasReset THEN e.count ELSE -1
       ELSE /\ rl_pc' = [rl_pc EXCEPT ![t] = "insert"]
            /\ UNCHANGED <<request_tracker, transaction_tracker, rl_result,
                           calls_in_window, accepted_in_window, reset_from>>
    /\ UNCHANGED <<rate_limit_config, instant, ticks, client_id, request_type, rl_now>>
    /\ UNCHANGED notRate

\* tracker.insert(client_id.to_string(), (1, now)); Ok(())
CheckInsert(t) ==
    /\ rl_pc[t] = "insert"
    /\ LET existed == client_id \in DOMAIN Tracker(request_type) IN
       /\ SetTracker(request_type,
                     MapInsert(Tracker(request_type), client_id,
                               [count |-> 1, last_reset |-> rl_now[t]]))
       /\ calls_in_window' = IF existed THEN calls_in_window + 1 ELSE 1
       /\ accepted_in_window' = IF existed THEN accepted_in_window + 1 ELSE 1
    /\ rl_pc' = [rl_pc EXCEPT ![t] = "idle"]
    /\ rl_result' = [rl_result EXCEPT ![t] = "Ok"]
    /\ reset_from' = -1
    /\ UNCHANGED <<rate_limit_config, instant, ticks, client_id, request_type, rl_now>>
    /\ UNCHANGED notRate

\* time passes
Tick(d) ==
    /\ ticks < MaxTicks
    /\ instant' = instant + d
    /\ ticks' = ticks + 1
    /\ UNCHANGED <<rate_limit_config, request_tracker, transaction_tracker,
                   client_id, request_type, rl_pc, rl_now, rl_result,
                   calls_in_window, accepted_in_window, reset_from>>
    /\ UNCHANGED notRate

(***************************************************************************)
(* Transfer policies: validate_transaction, ban_address, add_to_whitelist, *)
(* add_to_blacklist, cleanup_expired                                       *)
(***************************************************************************)
\* wall clock advances in one behaviour
MaxUtcTicks == 2
\* the longest ban duration passed to ban_address, seconds
MaxBanDuration == 2
MaxWallets == 3
\* seconds of a day: Utc::now().date_naive()
SecondsPerDay == 86400

Addresses == {"a1", "a2"}
Amounts == {0, 1000}
BanDurations == 1..MaxBanDuration

DateOf(t) == t \div SecondsPerDay

NoValidation == [from |-> "", to |-> "", amount |-> 0, result |-> "none"]

\* a ban test that looks at the expiry of the entry
BanMatchesUnexpired(from, to) ==
    \E a \in {from, to} :
        a \in DOMAIN banned_addresses /\ banned_addresses[a] >= utc_now

\* banned_addresses.get(from).is_some() || banned_addresses.get(to).is_some()
BanMatches(from, to) ==
    from \in DOMAIN banned_addresses \/ to \in DOMAIN banned_addresses

\* whitelist_enabled && whitelist.get(to).is_none()
WhitelistMatches(to) == whitelist_enabled /\ to \notin whitelist

\* blacklist.get(to).is_some()
BlacklistMatchesUnlessWhitelisted(to) == to \in blacklist /\ to \notin whitelist

BlacklistMatches(to) == to \in blacklist

\* amount > 0, and the history of <<from, today>> holds an entry of today: the
\* volume computed is (entries of today) * amount, rejected when > 0
VolumeMatches(from, amount) ==
    /\ amount > 0
    /\ LET today == DateOf(utc_now)
           key == <<from, today>>
       IN  /\ key \in DOMAIN transaction_history
           /\ LET history == transaction_history[key]
                  today_transactions ==
                      {i \in DOMAIN history : DateOf(history[i]) = today}
              IN  Cardinality(today_transactions) * amount > 0

\* validate_transaction: the checks in the order of the source, the first that
\* matches returns its error
ValidateResultBlacklistFirst(from, to, amount) ==
    IF BlacklistMatches(to) THEN "Blacklisted"
    ELSE IF BanMatches(from, to) THEN "Banned"
    ELSE IF WhitelistMatches(to) THEN "NotWhitelisted"
    ELSE IF VolumeMatches(from, amount) THEN "DailyLimit"
    ELSE "Ok"

ValidateResult(from, to, amount) ==
    IF BanMatches(from, to) THEN "Banned"
    ELSE IF WhitelistMatches(to) THEN "NotWhitelisted"
    ELSE IF BlacklistMatches(to) THEN "Blacklisted"
    ELSE IF VolumeMatches(from, amount) THEN "DailyLimit"
    ELSE "Ok"

\* a validate_transaction that records the transfer it accepts in the history
ValidateCallRecording(from, to, amount) ==
    /\ validation' = [from |-> from, to |-> to, amount |-> amount,
                      result |-> ValidateResult(from, to, amount)]
    /\ transaction_history' =
           IF ValidateResult(from, to, amount) = "Ok" /\ amount > 0
           THEN MapInsert(transaction_history, <<from, DateOf(utc_now)>>, <<utc_now>>)
           ELSE transaction_history
    /\ UNCHANGED <<banned_addresses, whitelist, blacklist, whitelist_enabled,
                   utc_now, utc_ticks, last_ban, ban_until>>
    /\ UNCHANGED notPolicy

\* the call reads the maps and writes none of them
ValidateCall(from, to, amount) ==
    /\ validation' = [from |-> from, to |-> to, amount |-> amount,
                      result |-> ValidateResult(from, to, amount)]
    /\ UNCHANGED <<banned_addresses, whitelist, blacklist, whitelist_enabled,
                   transaction_history, utc_now, utc_ticks, last_ban, ban_until>>
    /\ UNCHANGED notPolicy

ValidateTransaction(from, to, amount) ==
    /\ ValidateCall(from, to, amount)
    /\ UNCHANGED streak

\* one more of the calls a sender makes in a row, six at most
ScenarioValidate(to, amount) ==
    /\ streak.n < 6
    /\ ValidateCall(streak.from, to, amount)
    /\ streak' = [streak EXCEPT !.n = @ + 1,
                                !.start = IF streak.n = 0 THEN utc_now ELSE @]

\* let expiry = Utc::now() + duration; banned_addresses.insert(address, expiry)
BanAddress(a, d) ==
    /\ banned_addresses' = MapInsert(banned_addresses, a, utc_now + d)
    /\ last_ban' = [last_ban EXCEPT ![a] = utc_now + d]
    /\ ban_until' = [ban_until EXCEPT
                         ![a] = IF utc_now + d > @ THEN utc_now + d ELSE @]
    /\ validation' = NoValidation
    /\ UNCHANGED <<whitelist, blacklist, whitelist_enabled, transaction_history,
                   utc_now, utc_ticks, streak>>
    /\ UNCHANGED notPolicy

\* whitelist.insert(address, true)
AddToWhitelist(a) ==
    /\ whitelist' = whitelist \cup {a}
    /\ validation' = NoValidation
    /\ UNCHANGED <<banned_addresses, blacklist, whitelist_enabled, transaction_history,
                   utc_now, utc_ticks, last_ban, ban_until, streak>>
    /\ UNCHANGED notPolicy

\* blacklist.insert(address, true)
AddToBlacklist(a) ==
    /\ blacklist' = blacklist \cup {a}
    /\ validation' = NoValidation
    /\ UNCHANGED <<banned_addresses, whitelist, whitelist_enabled, transaction_history,
                   utc_now, utc_ticks, last_ban, ban_until, streak>>
    /\ UNCHANGED notPolicy

\* a cleanup_expired that removes every ban
CleanupExpiredAll ==
    /\ banned_addresses' = EmptyMap
    /\ validation' = NoValidation
    /\ UNCHANGED <<whitelist, blacklist, whitelist_enabled, transaction_history,
                   utc_now, utc_ticks, last_ban, ban_until, streak>>
    /\ UNCHANGED notPolicy

\* the keys cleanup_expired collects: entries whose expiry is before now
ExpiredKeysEager(now) ==
    {a \in DOMAIN banned_addresses : banned_addresses[a] <= now}

ExpiredKeys(now) ==
    {a \in DOMAIN banned_addresses : banned_addresses[a] < now}

\* cleanup_expired: collect the keys, then remove each
CleanupExpired ==
    /\ banned_addresses' = MapRemoveAll(banned_addresses, ExpiredKeys(utc_now))
    /\ validation' = NoValidation
    /\ UNCHANGED <<whitelist, blacklist, whitelist_enabled, transaction_history,
                   utc_now, utc_ticks, last_ban, ban_until, streak>>
    /\ UNCHANGED notPolicy

\* the wall clock advances
UtcTick(d) ==
    /\ utc_ticks < MaxUtcTicks
    /\ utc_now' = utc_now + d
    /\ utc_ticks' = utc_ticks + 1
    /\ validation' = NoValidation
    /\ UNCHANGED <<banned_addresses, whitelist, blacklist, whitelist_enabled,
                   transaction_history, last_ban, ban_until, streak>>
    /\ UNCHANGED notPolicy

\* the maps of SecurityManager::new
PolicyNew ==
    /\ banned_addresses = EmptyMap
    /\ whitelist = {}
    /\ blacklist = {}
    /\ transaction_history = EmptyMap
    /\ utc_now = 0
    /\ utc_ticks = 0
    /\ validation = NoValidation
    /\ last_ban = [a \in Addresses |-> -1]
    /\ ban_until = [a \in Addresses |-> -1]

(***************************************************************************)
(* Relay submission and launch_snipe_bundle                                *)
(***************************************************************************)
\* JitoConfig::default
MinTipLamports == 100000
MaxTipLamports == 5000000
\* LaunchSnipeConfig::default
DefaultTipLamports == 500000

\* Option<T>: the empty set is None, {v} is Some(v)
None == {}
Some(v) == {v}
UnwrapOr(opt, default) == IF opt = {} THEN default ELSE CHOOSE v \in opt : TRUE

\* the tips a caller asks for: below, at, inside, and above [min, max]
TipValues == {0, MinTipLamports - 1, MinTipLamports, DefaultTipLamports,
              MaxTipLamports, MaxTipLamports + 1}

\* how a post to the relay ends: no response, a non-success status, a body that is
\* no JSON, a JSON body with no `result`, one whose `result` is no string, one whose
\* `result` is a string
RelayOutcomes ==
    {"transport_error", "http_error", "bad_json", "no_result", "result_not_string", "ok"}

\* let tip = tip_lamports.unwrap_or(self.jito_config.min_tip_lamports)
JitoTip(tip_lamports) == UnwrapOr(tip_lamports, MinTipLamports)

\* the BundleSubmission send_via_jito_bundle posts; `requested` keeps the
\* tip_lamports argument of the call beside it
JitoRequest(txs, tip_lamports) ==
    [method |-> "sendBundle", params |-> txs, tip |-> JitoTip(tip_lamports),
     requested |-> tip_lamports]

\* what the relay answered: whether send() returned a response, whether its status
\* is a success, whether its body is JSON, and what the body holds under "result"
RelayResponse(outcome) ==
    [transport_ok |-> outcome # "transport_error",
     status_success |-> outcome \notin {"transport_error", "http_error"},
     json_ok |-> outcome \in {"no_result", "result_not_string", "ok"},
     result |-> CASE outcome = "ok" -> "string"
                  [] outcome = "result_not_string" -> "number"
                  [] OTHER -> "absent"]

\* a send_via_jito_bundle that takes any `result` of the body for the identifier
JitoResultAnyResult(outcome) ==
    LET r == RelayResponse(outcome)
    IN  IF ~r.transport_ok THEN [kind |-> "Err", value |-> "JitoApi"]
        ELSE IF ~r.status_success THEN [kind |-> "Err", value |-> "JitoApi"]
        ELSE IF ~r.json_ok THEN [kind |-> "Err", value |-> "JitoApi"]
        ELSE IF r.result # "absent" THEN [kind |-> "Ok", value |-> "bundle:hash"]
        ELSE [kind |-> "Err", value |-> "JitoApi"]

\* what send_via_jito_bundle returns: the `?` on send(), the status check, the `?` on
\* json(), and result.get("result").and_then(|r| r.as_str())
JitoResult(outcome) ==
    LET r == RelayResponse(outcome)
    IN  IF ~r.transport_ok THEN [kind |-> "Err", value |-> "JitoApi"]
        ELSE IF ~r.status_success THEN [kind |-> "Err", value |-> "JitoApi"]
        ELSE IF ~r.json_ok THEN [kind |-> "Err", value |-> "JitoApi"]
        ELSE IF r.result = "string" THEN [kind |-> "Ok", value |-> "bundle:hash"]
        ELSE [kind |-> "Err", value |-> "JitoApi"]

\* the post and result of one send_via_jito_bundle call
JitoResponse(outcome) ==
    [outcome |-> outcome, response |-> RelayResponse(outcome),
     returned |-> JitoResult(outcome)]

(***************************************************************************)
(* Amounts. A number is m * 10^e with 0 <= m < 1000, so that the f64       *)
(* products of the code, which exceed 32 bits, are computed exactly.       *)
(***************************************************************************)
RECURSIVE Pow10(_)
Pow10(k) == IF k <= 0 THEN 1 ELSE 10 * Pow10(k - 1)

Dec(m, e) == [m |-> m, e |-> e]

\* u64::MAX, the value a cast saturates to
U64Max == Dec(-1, 0)

\* the literal 1_000_000_000.0
LamportsPerSol == Dec(1, 9)

\* a * b in f64
DecMul(a, b) == Dec(a.m * b.m, a.e + b.e)

\* d >= 2^64 = 18446744073709551616
ExceedsU64(d) ==
    /\ d.m > 0
    /\ \/ d.e >= 20
       \/ d.e >= 17 /\ d.m * Pow10(d.e - 17) >= 185

\* `as u64`: the fraction is cut off and the value saturates at u64::MAX
AsU64(d) ==
    IF ExceedsU64(d) THEN U64Max
    ELSE IF d.e < 0 THEN Dec(d.m \div Pow10(-d.e), 0)
    ELSE d

\* a <= b
DecLE(a, b) ==
    IF b = U64Max THEN TRUE
    ELSE IF a = U64Max THEN FALSE
    ELSE IF a.m = 0 THEN TRUE
    ELSE IF b.m = 0 THEN FALSE
    ELSE LET lo == IF a.e < b.e THEN a.e ELSE b.e
             da == IF a.e - lo > 3 THEN 3 ELSE a.e - lo
             db == IF b.e - lo > 3 THEN 3 ELSE b.e - lo
         IN  a.m * Pow10(da) <= b.m * Pow10(db)

\* u64::min
DecMin(a, b) == IF DecLE(a, b) THEN a ELSE b

\* (metadata.initial_liquidity_sol * 1_000_000_000.0) as u64
InitialLiquidityLamports(md) == AsU64(DecMul(md.initial_liquidity_sol, LamportsPerSol))

\* ((initial_liquidity_lamports as f64) * buy_amount_percentage * 1_000_000_000.0) as u64
SnipeAmountLamports(md, cfg) ==
    AsU64(DecMul(DecMul(InitialLiquidityLamports(md), cfg.buy_amount_percentage),
                 LamportsPerSol))

\* snipe_amount_lamports.min((max_buy_amount_sol * 1_000_000_000.0) as u64)
FinalSnipeAmount(md, cfg) ==
    DecMin(SnipeAmountLamports(md, cfg),
           AsU64(DecMul(cfg.max_buy_amount_sol, LamportsPerSol)))

\* the liquidity, the share and the cap a caller passes: 0.5, 1 and 100 SOL,
\* 10% and 50%, 1 and 10 SOL
LiquiditySols == {Dec(5, -1), Dec(1, 0), Dec(1, 2)}
BuyPercentages == {Dec(1, -1), Dec(5, -1)}
MaxBuySols == {Dec(1, 0), Dec(1, 1)}

NoOutcome ==
    [kind |-> "none", error |-> "", launch_signature |-> None, snipe_signature |-> None,
     bundle_hash |-> None, mint_address |-> None, buy_amount |-> None,
     mev_protected |-> FALSE]

LsErr(e) == [NoOutcome EXCEPT !.kind = "Err", !.error = e]

\* the length of a buffer of key bytes
KeyBytes == 3

\* the decrypted private key of wallet i, what decrypt_data returns for it
WalletKey(i) == [j \in 1..KeyBytes |-> 256 - i]
DevWallet == 1

\* every step of the call leaves the configuration alone
LsStepKey(pc, outcome, evs, reqs, resps, amount, key) ==
    /\ ls_pc' = pc
    /\ ls_outcome' = outcome
    /\ events' = events \o evs
    /\ relay_requests' = relay_requests \o reqs
    /\ relay_responses' = relay_responses \o resps
    /\ final_snipe_amount' = amount
    /\ private_key_bytes' = key
    /\ UNCHANGED <<launch_config, metadata, jito_enabled, randomize_timing>>
    /\ UNCHANGED buyVars
    /\ UNCHANGED notBundle

\* no step after the decryption writes to private_key_bytes, and the buffer is freed
\* as it is when the call returns
LsStepFull(pc, outcome, evs, reqs, resps, amount) ==
    LsStepKey(pc, outcome, evs, reqs, resps, amount, private_key_bytes)

LsStep(pc, outcome, evs, reqs) ==
    LsStepFull(pc, outcome, evs, reqs, <<>>, final_snipe_amount)

\* a call that does not look at enable_launch_snipe
LsStartUnchecked ==
    /\ ls_pc = "start"
    /\ LsStep("decrypt", ls_outcome, <<>>, <<>>)

\* if !launch_config.enable_launch_snipe { return Err(LaunchSnipeFailed) }
LsStart ==
    /\ ls_pc = "start"
    /\ IF launch_config.enable_launch_snipe
       THEN LsStep("decrypt", ls_outcome, <<>>, <<>>)
       ELSE LsStep("done", LsErr("LaunchSnipeFailed"), <<>>, <<>>)

\* derive_encryption_key, decrypt_data, Keypair::from_bytes: a failed decryption
\* returns no bytes; Keypair::from_bytes fails on bytes decrypt_data has returned
LsDecrypt(r) ==
    /\ ls_pc = "decrypt"
    /\ LET key == IF r = "DecryptFailed" THEN None ELSE Some(WalletKey(DevWallet))
       IN  IF r = "ok"
           THEN LsStepKey("network", ls_outcome, <<"decrypt">>, <<>>, <<>>,
                          final_snipe_amount, key)
           ELSE LsStepKey("done", LsErr(r), <<"decrypt">>, <<>>, <<>>,
                          final_snipe_amount, key)

\* match network.as_str()
LsNetwork(valid) ==
    /\ ls_pc = "network"
    /\ IF valid THEN LsStep("blockhash", ls_outcome, <<>>, <<>>)
       ELSE LsStep("done", LsErr("InvalidMetadata"), <<>>, <<>>)

\* rpc_client.get_latest_blockhash()
LsBlockhash(ok) ==
    /\ ls_pc = "blockhash"
    /\ IF ok THEN LsStep("build_launch", ls_outcome, <<"get_latest_blockhash">>, <<>>)
       ELSE LsStep("done", LsErr("BundleConstruction"), <<"get_latest_blockhash">>, <<>>)

\* Keypair::new, create_pumpfun_launch_instructions, the signed launch transaction
LsBuildLaunch(ok) ==
    /\ ls_pc = "build_launch"
    /\ IF ok THEN LsStep("build_snipe", ls_outcome, <<"build_launch">>, <<>>)
       ELSE LsStep("done", LsErr("PumpfunProgram"), <<>>, <<>>)

\* the snipe amount, create_snipe_instructions, the signed snipe transaction
LsBuildSnipe ==
    /\ ls_pc = "build_snipe"
    /\ LsStepFull("jitter", ls_outcome, <<"build_snipe">>, <<>>, <<>>,
                  Some(FinalSnipeAmount(metadata, launch_config)))

\* a delay that does not look at randomize_timing
LsJitterAlways ==
    /\ ls_pc = "jitter"
    /\ LsStep("submit", ls_outcome, <<"jitter_delay">>, <<>>)

\* if self.mev_protection.randomize_timing { sleep(random 100..300 ms) }
LsJitter ==
    /\ ls_pc = "jitter"
    /\ LsStep("submit", ls_outcome,
              IF randomize_timing THEN <<"jitter_delay">> ELSE <<>>, <<>>)

UseJito == launch_config.use_jito /\ jito_enabled

\* a bundle branch that sends the pair one by one when the relay refuses the bundle
LsSubmitJitoFallback(outcome) ==
    /\ ls_pc = "submit"
    /\ UseJito
    /\ LET req == JitoRequest(<<"launch_tx", "snipe_tx">>,
                              Some(launch_config.tip_lamports))
           res == JitoResult(outcome)
       IN  IF res.kind = "Ok"
           THEN LsStepFull("done",
                           [kind |-> "Ok", error |-> "",
                            launch_signature |-> Some(res.value),
                            snipe_signature |-> Some(res.value),
                            bundle_hash |-> Some(res.value),
                            mint_address |-> Some("mint"),
                            buy_amount |-> final_snipe_amount,
                            mev_protected |-> TRUE],
                           <<"relay_post:" \o outcome>>, <<req>>,
                           <<JitoResponse(outcome)>>, final_snipe_amount)
           ELSE LsStepFull("settle", ls_outcome,
                           <<"relay_post:" \o outcome, "send_launch:ok">>, <<req>>,
                           <<JitoResponse(outcome)>>, final_snipe_amount)

\* the bundle branch: send_via_jito_bundle([launch, snipe], Some(tip_lamports)) and
\* the response built from its result
LsSubmitJito(outcome) ==
    /\ ls_pc = "submit"
    /\ UseJito
    /\ LET req == JitoRequest(<<"launch_tx", "snipe_tx">>,
                              Some(launch_config.tip_lamports))
           res == JitoResult(outcome)
       IN  LsStepFull("done",
                  IF res.kind = "Ok"
                  THEN [kind |-> "Ok", error |-> "",
                        launch_signature |-> Some(res.value),
                        snipe_signature |-> Some(res.value),
                        bundle_hash |-> Some(res.value),
                        mint_address |-> Some("mint"),
                        buy_amount |-> final_snipe_amount,
                        mev_protected |-> TRUE]
                  ELSE LsErr(res.value),
                  <<"relay_post:" \o outcome>>, <<req>>, <<JitoResponse(outcome)>>,
                  final_snipe_amount)

\* a fallback branch that goes on to the snipe whatever the launch send returned
LsSendLaunchIgnoreErr(ok) ==
    /\ ls_pc = "submit"
    /\ ~UseJito
    /\ IF ok THEN LsStep("settle", ls_outcome, <<"send_launch:ok">>, <<>>)
       ELSE LsStep("settle", ls_outcome, <<"send_launch:err">>, <<>>)

\* the fallback branch: rpc_client.send_transaction(&launch_transaction)
LsSendLaunch(ok) ==
    /\ ls_pc = "submit"
    /\ ~UseJito
    /\ IF ok THEN LsStep("settle", ls_outcome, <<"send_launch:ok">>, <<>>)
       ELSE LsStep("done", LsErr("LaunchSnipeFailed"), <<"send_launch:err">>, <<>>)

\* a fallback that sends the snipe transaction right after the launch transaction
LsSettleSkipped ==
    /\ ls_pc = "settle"
    /\ LsStep("send_snipe", ls_outcome, <<>>, <<>>)

\* tokio::time::sleep(Duration::from_millis(50))
LsSettle ==
    /\ ls_pc = "settle"
    /\ LsStep("send_snipe", ls_outcome, <<"settle_delay">>, <<>>)

\* a snipe send that reports the failure and then tries again
LsSendSnipeRetry(ok) ==
    /\ ls_pc = "send_snipe"
    /\ IF ok
       THEN LsStep("done",
                   [kind |-> "Ok", error |-> "",
                    launch_signature |-> Some("pending"),
                    snipe_signature |-> Some("sig_snipe"),
                    bundle_hash |-> Some("fallback"),
                    mint_address |-> Some("mint"),
                    buy_amount |-> final_snipe_amount,
                    mev_protected |-> FALSE],
                   <<"send_snipe:ok">>, <<>>)
       ELSE LsStep("send_snipe", LsErr("SnipeFailed"), <<"send_snipe:err">>, <<>>)

\* rpc_client.send_transaction(&snipe_transaction) and the fallback response
LsSendSnipe(ok) ==
    /\ ls_pc = "send_snipe"
    /\ IF ok
       THEN LsStep("done",
                   [kind |-> "Ok", error |-> "",
                    launch_signature |-> Some("pending"),
                    snipe_signature |-> Some("sig_snipe"),
                    bundle_hash |-> Some("fallback"),
                    mint_address |-> Some("mint"),
                    buy_amount |-> final_snipe_amount,
                    mev_protected |-> FALSE],
                   <<"send_snipe:ok">>, <<>>)
       ELSE LsStep("done", LsErr("SnipeFailed"), <<"send_snipe:err">>, <<>>)

(***************************************************************************)
(* execute_bundle_buy                                                      *)
(***************************************************************************)
SwapTx(i) == "swap_tx:" \o ToString(i)
Signature(tx) == "sig:" \o tx

NoBuyOutcome ==
    [kind |-> "none", error |-> "", signatures |-> <<>>, total_transactions |-> 0,
     success_count |-> 0, error_count |-> 0]

EbErr(e) == [NoBuyOutcome EXCEPT !.kind = "Err", !.error = e]

\* BundleBuyResponse as the command wraps it into BundleExecutionResult
BundleExecutionResult(sigs, n) ==
    [kind |-> "Ok", error |-> "", signatures |-> sigs, total_transactions |-> n,
     success_count |-> Len(sigs), error_count |-> n - Len(sigs)]

\* every step of the call leaves its arguments alone
EbStepKey(pc, outcome, txs, sigs, evs, reqs, resps, keys) ==
    /\ eb_pc' = pc
    /\ wallet_key_bytes' = keys
    /\ eb_outcome' = outcome
    /\ transactions' = txs
    /\ signatures' = sigs
    /\ eb_events' = eb_events \o evs
    /\ relay_requests' = relay_requests \o reqs
    /\ relay_responses' = relay_responses \o resps
    /\ UNCHANGED <<bundle_wallets, use_mev_protection, jito_enabled>>
    /\ UNCHANGED launchVars
    /\ UNCHANGED notBundle

\* no step but the decryption of a round writes to a private_key_bytes buffer
EbStep(pc, outcome, txs, sigs, evs, reqs, resps) ==
    EbStepKey(pc, outcome, txs, sigs, evs, reqs, resps, wallet_key_bytes)

\* if bundle_wallets.is_empty() { return Err(InvalidMetadata) }
EbStart ==
    /\ eb_pc = "start"
    /\ IF bundle_wallets = 0
       THEN EbStep("done", EbErr("InvalidMetadata"), <<>>, <<>>, <<>>, <<>>, <<>>)
       ELSE EbStep("build", eb_outcome, <<>>, <<>>, <<>>, <<>>, <<>>)

\* a build loop that sends the transaction of each round as soon as it is signed
EbBuildSendEach(r) ==
    /\ eb_pc = "build"
    /\ LET i == Len(transactions) + 1
           keys == IF r = "DecryptFailed" THEN wallet_key_bytes
                   ELSE Append(wallet_key_bytes, WalletKey(i))
       IN  IF r = "ok"
           THEN EbStepKey(IF i = bundle_wallets THEN "submit" ELSE "build", eb_outcome,
                          Append(transactions, SwapTx(i)), signatures,
                          <<[op |-> "build", wallet |-> i, ok |-> TRUE],
                            [op |-> "send", wallet |-> i, ok |-> TRUE]>>, <<>>, <<>>,
                          keys)
           ELSE EbStepKey("done", EbErr(r), transactions, signatures,
                          <<[op |-> "build", wallet |-> i, ok |-> FALSE]>>, <<>>, <<>>,
                          keys)

\* one round of `for wallet in &bundle_wallets`: decrypt, Keypair::from_bytes,
\* create_swap_transaction, transactions.push
EbBuild(r) ==
    /\ eb_pc = "build"
    /\ LET i == Len(transactions) + 1
           keys == IF r = "DecryptFailed" THEN wallet_key_bytes
                   ELSE Append(wallet_key_bytes, WalletKey(i))
       IN  IF r = "ok"
           THEN EbStepKey(IF i = bundle_wallets THEN "submit" ELSE "build", eb_outcome,
                          Append(transactions, SwapTx(i)), signatures,
                          <<[op |-> "build", wallet |-> i, ok |-> TRUE]>>, <<>>, <<>>,
                          keys)
           ELSE EbStepKey("done", EbErr(r), transactions, signatures,
                          <<[op |-> "build", wallet |-> i, ok |-> FALSE]>>, <<>>, <<>>,
                          keys)

UseMevBundle == use_mev_protection /\ jito_enabled

\* a bundle branch that posts one request for each transaction
EbSubmitJitoPerWallet(outcome) ==
    /\ eb_pc = "submit"
    /\ UseMevBundle
    /\ LET reqs == [i \in DOMAIN transactions |->
                       JitoRequest(<<transactions[i]>>, Some(MinTipLamports))]
           resps == [i \in DOMAIN transactions |-> JitoResponse(outcome)]
           res == JitoResult(outcome)
       IN  IF res.kind = "Ok"
           THEN EbStep("done", BundleExecutionResult(<<res.value>>, bundle_wallets),
                       transactions, <<res.value>>, <<>>, reqs, resps)
           ELSE EbStep("done", EbErr(res.value), transactions, signatures, <<>>,
                       reqs, resps)

\* the bundle branch: send_via_jito_bundle(transactions, Some(min_tip_lamports))
EbSubmitJito(outcome) ==
    /\ eb_pc = "submit"
    /\ UseMevBundle
    /\ LET req == JitoRequest(transactions, Some(MinTipLamports))
           res == JitoResult(outcome)
       IN  IF res.kind = "Ok"
           THEN EbStep("done", BundleExecutionResult(<<res.value>>, bundle_wallets),
                       transactions, <<res.value>>, <<>>, <<req>>,
                       <<JitoResponse(outcome)>>)
           ELSE EbStep("done", EbErr(res.value), transactions, signatures, <<>>,
                       <<req>>, <<JitoResponse(outcome)>>)

\* a send loop that puts each new signature in front of the earlier ones
EbSendPrepend(ok) ==
    /\ eb_pc \in {"submit", "send"}
    /\ ~UseMevBundle
    /\ LET i == Len(signatures) + 1
       IN  IF ok
           THEN EbStep("delay", eb_outcome, transactions,
                       <<Signature(transactions[i])>> \o signatures,
                       <<[op |-> "send", wallet |-> i, ok |-> TRUE]>>, <<>>, <<>>)
           ELSE EbStep("done", EbErr("BundleSubmission"), transactions, signatures,
                       <<[op |-> "send", wallet |-> i, ok |-> FALSE]>>, <<>>, <<>>)

\* one round of `for transaction in transactions`: send_and_confirm_transaction with
\* its `?`, then signatures.push
EbSend(ok) ==
    /\ eb_pc \in {"submit", "send"}
    /\ ~UseMevBundle
    /\ LET i == Len(signatures) + 1
       IN  IF ok
           THEN EbStep("delay", eb_outcome, transactions,
                       Append(signatures, Signature(transactions[i])),
                       <<[op |-> "send", wallet |-> i, ok |-> TRUE]>>, <<>>, <<>>)
           ELSE EbStep("done", EbErr("BundleSubmission"), transactions, signatures,
                       <<[op |-> "send", wallet |-> i, ok |-> FALSE]>>, <<>>, <<>>)

\* tokio::time::sleep(Duration::from_millis(100)) at the end of the round; after the
\* last round the response is built
EbDelay ==
    /\ eb_pc = "delay"
    /\ LET i == Len(signatures)
           ev == <<[op |-> "delay", wallet |-> i, ok |-> TRUE]>>
       IN  IF i = Len(transactions)
           THEN EbStep("done", BundleExecutionResult(signatures, bundle_wallets),
                       transactions, signatures, ev, <<>>, <<>>)
           ELSE EbStep("send", eb_outcome, transactions, signatures, ev, <<>>, <<>>)

\* PumpfunInterface::new, before a call
BundleNew ==
    /\ ls_pc = "start"
    /\ ls_outcome = NoOutcome
    /\ events = <<>>
    /\ relay_requests = <<>>
    /\ relay_responses = <<>>
    /\ final_snipe_amount = None
    /\ private_key_bytes = None
    /\ eb_pc = "start"
    /\ transactions = <<>>
    /\ wallet_key_bytes = <<>>
    /\ signatures = <<>>
    /\ eb_outcome = NoBuyOutcome
    /\ eb_events = <<>>

DefaultLaunchConfig ==
    [enable_launch_snipe |-> TRUE, buy_amount_percentage |-> Dec(1, -1),
     max_buy_amount_sol |-> Dec(1, 0), use_jito |-> TRUE,
     tip_lamports |-> DefaultTipLamports]

BundleIdle ==
    /\ BundleNew
    /\ launch_config = DefaultLaunchConfig
    /\ metadata = [initial_liquidity_sol |-> Dec(1, 0)]
    /\ bundle_wallets = 1
    /\ use_mev_protection = TRUE
    /\ jito_enabled = TRUE
    /\ randomize_timing = TRUE

(***************************************************************************)
(* AsyncUtils::execute_with_retry                                          *)
(***************************************************************************)
\* the largest max_retries passed to execute_with_retry
MaxRetries == 2

\* how one run of the operation ends: Ok, a transient transport or RPC failure, or
\* a failure of another kind
TransientFailures == {"transport"}
PermanentFailures == {"validation", "signature", "policy"}
OperationOutcomes == {"ok"} \cup TransientFailures \cup PermanentFailures

NoRetryResult == [kind |-> "none", error |-> ""]

RetryStep(pc, n, evs, result) ==
    /\ retry_pc' = pc
    /\ attempt' = n
    /\ retry_log' = retry_log \o evs
    /\ retry_result' = result
    /\ UNCHANGED max_retries
    /\ UNCHANGED notRetry

\* one round of `for attempt in 0..=max_retries`: match operation().await; the
\* round that fails with attempt = max_retries ends the loop
\* an execute_with_retry that sleeps after every failed attempt, the last included
RetryAttemptSleepLast(outcome) ==
    /\ retry_pc = "attempt"
    /\ LET ev == <<[op |-> "attempt", outcome |-> outcome]>>
       IN  IF outcome = "ok"
           THEN RetryStep("done", attempt, ev, [kind |-> "Ok", error |-> ""])
           ELSE IF attempt < max_retries
           THEN RetryStep("sleep", attempt, ev, [retry_result EXCEPT !.error = outcome])
           ELSE RetryStep("done", attempt,
                          ev \o <<[op |-> "delay", outcome |-> outcome]>>,
                          [kind |-> "Err", error |-> outcome])

RetryAttempt(outcome) ==
    /\ retry_pc = "attempt"
    /\ LET ev == <<[op |-> "attempt", outcome |-> outcome]>>
       IN  IF outcome = "ok"
           THEN RetryStep("done", attempt, ev, [kind |-> "Ok", error |-> ""])
           ELSE IF attempt < max_retries
           THEN RetryStep("sleep", attempt, ev, [retry_result EXCEPT !.error = outcome])
           ELSE RetryStep("done", attempt, ev, [kind |-> "Err", error |-> outcome])

\* tokio::time::sleep(delay).await, then the next round
RetrySleep ==
    /\ retry_pc = "sleep"
    /\ RetryStep("attempt", attempt + 1,
                 <<[op |-> "delay", outcome |-> retry_result.error]>>, retry_result)

\* before the call: let mut last_error = None
RetryNew ==
    /\ retry_pc = "attempt"
    /\ attempt = 0
    /\ retry_log = <<>>
    /\ retry_result = NoRetryResult

RetryIdle == RetryNew /\ max_retries = 0

(***************************************************************************)
(* The commands of lib.rs that reach the network                          *)
(***************************************************************************)
\* command calls in one behaviour
MaxCalls == 6

\* the limits written into get_balance and transfer_tokens
BalanceLocalLimit == 30
TransferLocalLimit == 5

Commands == {"get_balance", "transfer_tokens", "send_bundle_transaction",
             "launch_snipe_bundle", "execute_bundle_buy"}

\* the commands that call check_rate_limit and count in app_state.rate_limiter
GatedCommands == {"get_balance", "transfer_tokens"}

\* format!("balance_{}_{}", public_key, network), format!("transfer_{}", from_public_key)
ClientKey(c) == IF c = "get_balance" THEN "balance_a1_mainnet" ELSE "transfer_a1"
GateType(c) == IF c = "get_balance" THEN "request" ELSE "transaction"
LocalLimit(c) == IF c = "get_balance" THEN BalanceLocalLimit ELSE TransferLocalLimit

\* check_rate_limit as a caller that holds the application lock runs it: the new
\* tracker and the result
CheckRateLimit(client, type) ==
    IF client \in DOMAIN Tracker(type)
    THEN LET e == Tracker(type)[client]
             out == CheckEntry(e, instant, instant - e.last_reset, Window(type),
                               Limit(type))
         IN  [tracker |-> [Tracker(type) EXCEPT ![client] = out.entry],
              result |-> out.result]
    ELSE [tracker |-> MapInsert(Tracker(type), client,
                                [count |-> 1, last_reset |-> instant]),
          result |-> "Ok"]

\* rate_limiter.entry(key).or_insert((0, now)), the reset after 60 s, the limit test
\* and `*count += 1`
LocalLimiter(key, limit) ==
    LET e0 == IF key \in DOMAIN rate_limiter THEN rate_limiter[key]
              ELSE [count |-> 0, last_request |-> instant]
        e1 == IF instant - e0.last_request > RequestWindowSecs
              THEN [count |-> 0, last_request |-> instant] ELSE e0
    IN  IF e1.count >= limit
        THEN [limiter |-> MapInsert(rate_limiter, key, e1), result |-> "RateLimit"]
        ELSE [limiter |-> MapInsert(rate_limiter, key, [e1 EXCEPT !.count = @ + 1]),
              result |-> "Ok"]

CmdFrame ==
    /\ UNCHANGED <<rate_limit_config, instant, ticks, client_id, request_type, rl_pc,
                   rl_now, rl_result, calls_in_window, accepted_in_window, reset_from>>
    /\ UNCHANGED <<policyVars, bundleVars, retryVars, secureKeyVars, cipherVars,
                   deriveVars, cacheVars, poolVars, walletVars>>

\* the command is invoked
CmdCall(c) ==
    /\ cmd_pc[c] = "idle"
    /\ cmd_calls < MaxCalls
    /\ cmd_calls' = cmd_calls + 1
    /\ cmd_pc' = [cmd_pc EXCEPT ![c] = "lock"]
    /\ cmd_log' = [cmd_log EXCEPT ![c] = <<>>]
    /\ cmd_result' = [cmd_result EXCEPT ![c] = "none"]
    /\ UNCHANGED <<app_lock, rate_limiter, request_tracker, transaction_tracker>>
    /\ CmdFrame

\* let app_state = state.lock().await: the guard lives until the command returns
CmdLock(c) ==
    /\ cmd_pc[c] = "lock"
    /\ app_lock = "free"
    /\ app_lock' = c
    /\ cmd_pc' = [cmd_pc EXCEPT ![c] = IF c \in GatedCommands THEN "gate" ELSE "network"]
    /\ cmd_log' = [cmd_log EXCEPT ![c] = Append(@, "lock")]
    /\ UNCHANGED <<rate_limiter, cmd_result, cmd_calls, request_tracker,
                   transaction_tracker>>
    /\ CmdFrame

\* get_balance and transfer_tokens before their first network call:
\* validate_transaction (transfer_tokens only), check_rate_limit, the local limiter
CmdGate(c) ==
    /\ cmd_pc[c] = "gate"
    /\ LET valid == c = "transfer_tokens" => ValidateResult("a1", "a2", 1000) = "Ok"
           chk == CheckRateLimit(ClientKey(c), GateType(c))
           loc == LocalLimiter(ClientKey(c), LocalLimit(c))
       IN  IF ~valid
           THEN /\ cmd_pc' = [cmd_pc EXCEPT ![c] = "idle"]
                /\ cmd_result' = [cmd_result EXCEPT ![c] = "TransactionValidation"]
                /\ app_lock' = "free"
                /\ UNCHANGED <<cmd_log, rate_limiter, request_tracker,
                               transaction_tracker>>
           ELSE IF chk.result # "Ok"
           THEN /\ SetTracker(GateType(c), chk.tracker)
                /\ cmd_pc' = [cmd_pc EXCEPT ![c] = "idle"]
                /\ cmd_result' = [cmd_result EXCEPT ![c] = "RateLimitExceeded"]
                /\ cmd_log' = [cmd_log EXCEPT ![c] = Append(@, "rate_check:rejected")]
                /\ app_lock' = "free"
                /\ UNCHANGED rate_limiter
           ELSE IF loc.result # "Ok"
           THEN /\ SetTracker(GateType(c), chk.tracker)
                /\ rate_limiter' = loc.limiter
                /\ cmd_pc' = [cmd_pc EXCEPT ![c] = "idle"]
                /\ cmd_result' = [cmd_result EXCEPT ![c] = "RateLimit"]
                /\ cmd_log' = [cmd_log EXCEPT ![c] = Append(@, "rate_check:rejected")]
                /\ app_lock' = "free"
           ELSE /\ SetTracker(GateType(c), chk.tracker)
                /\ rate_limiter' = loc.limiter
                /\ cmd_pc' = [cmd_pc EXCEPT ![c] = "network"]
                /\ cmd_log' = [cmd_log EXCEPT ![c] = Append(@, "rate_check:ok")]
                /\ UNCHANGED <<app_lock, cmd_result>>
    /\ UNCHANGED cmd_calls
    /\ CmdFrame

\* the rest of the command: it returns before its first network call (a cache hit,
\* a refused argument, a failed decryption), or it makes the call, which succeeds,
\* fails, or never responds; the guard is dropped when the command returns
NetworkOutcomes == {"early_ok", "early_err", "ok", "err", "stuck"}

CmdNetwork(c, outcome) ==
    /\ cmd_pc[c] = "network"
    /\ outcome = "early_ok" => c = "get_balance"
    /\ cmd_log' = [cmd_log EXCEPT ![c] =
                      IF outcome \in {"early_ok", "early_err"} THEN @
                      ELSE Append(@, "network")]
    /\ IF outcome = "stuck"
       THEN /\ cmd_pc' = [cmd_pc EXCEPT ![c] = "stuck"]
            /\ UNCHANGED <<app_lock, cmd_result>>
       ELSE /\ cmd_pc' = [cmd_pc EXCEPT ![c] = "idle"]
            /\ cmd_result' = [cmd_result EXCEPT ![c] =
                                  IF outcome \in {"early_ok", "ok"} THEN "Ok" ELSE "Err"]
            /\ app_lock' = "free"
    /\ UNCHANGED <<rate_limiter, cmd_calls, request_tracker, transaction_tracker>>
    /\ CmdFrame

\* AppState::new, no command running
CmdIdle ==
    /\ app_lock = "free"
    /\ rate_limiter = EmptyMap
    /\ cmd_pc = [c \in Commands |-> "idle"]
    /\ cmd_log = [c \in Commands |-> <<>>]
    /\ cmd_result = [c \in Commands |-> "none"]
    /\ cmd_calls = 0

(***************************************************************************)
(* SecureKey                                                               *)
(***************************************************************************)
\* accesses of one SecureKey
MaxAccess == 2

ByteChoices == {0, 1, 255}
KeyMaterials == [1..KeyBytes -> ByteChoices]

\* zeroize: every byte of the buffer is overwritten with 0
Zeroize(buf) == [i \in DOMAIN buf |-> 0]

SecureKeyFrame == UNCHANGED notSecureKey

\* SecureKey::access(f): last_accessed, access_count, then f(&self.key_material);
\* the callback reads the key and returns r
Access(r) ==
    /\ sk_pc = "live"
    /\ access_count < MaxAccess
    /\ last_accessed' = utc_now
    /\ access_count' = access_count + 1
    /\ sk_returned' = r
    /\ UNCHANGED <<key_material, sk_pc>>
    /\ SecureKeyFrame

\* #[derive(ZeroizeOnDrop)]: the key material is zeroized when the SecureKey is dropped
DropSecureKey ==
    /\ sk_pc = "live"
    /\ sk_pc' = "dropped"
    /\ key_material' = Zeroize(key_material)
    /\ UNCHANGED <<access_count, last_accessed, sk_returned>>
    /\ SecureKeyFrame

\* SecureKey::new(key_material, method)
SecureKeyNew ==
    /\ access_count = 0
    /\ last_accessed = utc_now
    /\ sk_pc = "live"
    /\ sk_returned = "none"

SecureKeyIdle ==
    /\ SecureKeyNew
    /\ key_material = [i \in 1..KeyBytes |-> 0]

(***************************************************************************)
(* SecurityManager::encrypt_data and decrypt_data                          *)
(***************************************************************************)
\* the longest data encrypted
MaxData == 2

\* key.len() != 32, [0u8; 12] and &encrypted_data[..12], the AES-GCM tag
AesKeyLength == 32
NonceLength == 12
TagLength == 16

\* encryption_params.algorithm of SecurityManager::new
Algorithm == "Aes256Gcm"

ConstSeq(n, b) == [i \in 1..n |-> b]
Counting(n) == [i \in 1..n |-> i]

RECURSIVE SumSeq(_)
SumSeq(q) == IF q = <<>> THEN 0 ELSE (Head(q) + SumSeq(Tail(q))) % 256

\* the keys handed to encrypt_data and decrypt_data: three of 32 bytes, and keys
\* of other lengths
Keys32 == {ConstSeq(AesKeyLength, 1), ConstSeq(AesKeyLength, 2), Counting(AesKeyLength)}
KeysOtherLength == {<<>>, ConstSeq(AesKeyLength - 1, 1), ConstSeq(AesKeyLength + 1, 1)}
Keys == Keys32 \cup KeysOtherLength

RECURSIVE SeqsUpTo(_, _)
SeqsUpTo(n, S) ==
    IF n = 0 THEN {<<>>}
    ELSE SeqsUpTo(n - 1, S) \cup {Append(q, b) : q \in [1..(n - 1) -> S], b \in S}
Datas == SeqsUpTo(MaxData, {0, 255})

\* what OsRng.fill_bytes may write into nonce_bytes
Nonces == {ConstSeq(NonceLength, 0), Counting(NonceLength)}

\* Ok(value) and Err(SecurityError::variant(message))
NoError == [variant |-> "", message |-> ""]
OkResult(v) == [kind |-> "Ok", value |-> v, error |-> NoError]
ErrResult(variant, message) ==
    [kind |-> "Err", value |-> <<>>, error |-> [variant |-> variant, message |-> message]]
NoResult == [kind |-> "none", value |-> <<>>, error |-> NoError]

\* AES-256-GCM of the aes_gcm crate, as far as the callers depend on it: a key
\* stream that the key and the nonce determine, and a 16-byte tag over the key, the
\* nonce and the ciphertext that changes with every byte of them
KeyStream(key, nonce, i) == (SumSeq(key) + SumSeq(nonce) + i) % 256
Tag(key, nonce, ct) ==
    [j \in 1..TagLength |-> (SumSeq(key) + SumSeq(nonce) + SumSeq(ct) + Len(ct) + j) % 256]

\* cipher.encrypt(nonce, data): the ciphertext followed by the tag
AeadEncrypt(key, nonce, plain) ==
    LET ct == [i \in 1..Len(plain) |-> (plain[i] + KeyStream(key, nonce, i)) % 256]
    IN  ct \o Tag(key, nonce, ct)

\* cipher.decrypt(nonce, ciphertext): aead::Error unless the tag verifies
AeadDecrypt(key, nonce, sealed) ==
    IF Len(sealed) < TagLength THEN ErrResult("Encryption", "aead::Error")
    ELSE LET n == Len(sealed) - TagLength
             ct == SubSeq(sealed, 1, n)
             tag == SubSeq(sealed, n + 1, Len(sealed))
         IN  IF tag # Tag(key, nonce, ct) THEN ErrResult("Encryption", "aead::Error")
             ELSE OkResult([i \in 1..n |->
                               (ct[i] + 256 - KeyStream(key, nonce, i)) % 256])

\* encrypt_data(key, data), with the nonce OsRng produced
encrypt_data(key, plain, nonce) ==
    IF Algorithm = "Aes256Gcm"
    THEN IF Len(key) # AesKeyLength
         THEN ErrResult("InvalidKeyMaterial", "Key must be 32 bytes for AES-256")
         ELSE OkResult(nonce \o AeadEncrypt(key, nonce, plain))
    ELSE ErrResult("Encryption", "Algorithm not implemented")

\* a decrypt_data that takes the nonce to be the first 11 bytes
decrypt_data_short_nonce(key, blob) ==
    IF Len(blob) < NonceLength
    THEN ErrResult("Encryption", "Invalid encrypted data length")
    ELSE IF Algorithm = "Aes256Gcm"
    THEN IF Len(key) # AesKeyLength
         THEN ErrResult("InvalidKeyMaterial", "Key must be 32 bytes for AES-256")
         ELSE AeadDecrypt(key, SubSeq(blob, 1, NonceLength - 1),
                          SubSeq(blob, NonceLength + 1, Len(blob)))
    ELSE ErrResult("Encryption", "Algorithm not implemented")

\* a decrypt_data that looks at the key before it looks at the blob
decrypt_data_key_first(key, blob) ==
    IF Len(key) # AesKeyLength
    THEN ErrResult("InvalidKeyMaterial", "Key must be 32 bytes for AES-256")
    ELSE IF Len(blob) < NonceLength
    THEN ErrResult("Encryption", "Invalid encrypted data length")
    ELSE AeadDecrypt(key, SubSeq(blob, 1, NonceLength),
                     SubSeq(blob, NonceLength + 1, Len(blob)))

\* decrypt_data(key, encrypted_data)
decrypt_data(key, blob) ==
    IF Len(blob) < NonceLength
    THEN ErrResult("Encryption", "Invalid encrypted data length")
    ELSE IF Algorithm = "Aes256Gcm"
    THEN IF Len(key) # AesKeyLength
         THEN ErrResult("InvalidKeyMaterial", "Key must be 32 bytes for AES-256")
         ELSE AeadDecrypt(key, SubSeq(blob, 1, NonceLength),
                          SubSeq(blob, NonceLength + 1, Len(blob)))
    ELSE ErrResult("Encryption", "Algorithm not implemented")

\* the call encrypt_data(enc_key, data); the caller stores the blob it returns
EncryptCall(nonce) ==
    /\ cb_pc = "encrypt"
    /\ LET res == encrypt_data(enc_key, data, nonce)
       IN  /\ encrypted' = res
           /\ encrypted_data' = res.value
           /\ cb_pc' = IF res.kind = "Ok" THEN "stored" ELSE "done"
    /\ UNCHANGED <<enc_key, data, blob_change, dec_key, decrypted>>
    /\ UNCHANGED notCipher

\* one byte of the stored blob is changed
ByteDeltas == {1, 128, 255}

Tamper(i, d) ==
    /\ cb_pc = "stored"
    /\ blob_change = "none"
    /\ i \in DOMAIN encrypted_data
    /\ encrypted_data' = [encrypted_data EXCEPT ![i] = (@ + d) % 256]
    /\ blob_change' = "tampered"
    /\ UNCHANGED <<enc_key, data, encrypted, dec_key, decrypted, cb_pc>>
    /\ UNCHANGED notCipher

\* the stored blob loses its end
Truncate(n) ==
    /\ cb_pc = "stored"
    /\ blob_change = "none"
    /\ n < Len(encrypted_data)
    /\ encrypted_data' = SubSeq(encrypted_data, 1, n)
    /\ blob_change' = "truncated"
    /\ UNCHANGED <<enc_key, data, encrypted, dec_key, decrypted, cb_pc>>
    /\ UNCHANGED notCipher

\* the call decrypt_data(key, encrypted_data)
DecryptCall(key) ==
    /\ cb_pc = "stored"
    /\ dec_key' = key
    /\ decrypted' = decrypt_data(key, encrypted_data)
    /\ cb_pc' = "done"
    /\ UNCHANGED <<enc_key, data, encrypted, encrypted_data, blob_change>>
    /\ UNCHANGED notCipher

\* before the first call
CipherNew ==
    /\ encrypted = NoResult
    /\ encrypted_data = <<>>
    /\ blob_change = "none"
    /\ dec_key = <<>>
    /\ decrypted = NoResult
    /\ cb_pc = "encrypt"

CipherIdle ==
    /\ CipherNew
    /\ enc_key = <<>>
    /\ data = <<>>

(***************************************************************************)
(* SecurityManager::derive_key                                             *)
(***************************************************************************)
\* derive_key calls in one behaviour
MaxDerives == 3

\* EncryptionParams::default(): key_length
KeyLength == 32

KeyDerivationMethods == {"Argon2id", "Argon2i", "Argon2d", "PBKDF2", "Scrypt", "HKDF"}

\* the shortest salt hash_password_into of argon2 accepts
Argon2MinSaltLength == 8

\* password.as_bytes() and salt; the empty salt is tried with one password
Passwords == {<<112>>, <<112, 119>>}
Salts == {<<>>, ConstSeq(16, 7)}
DeriveArguments ==
    {a \in [password : Passwords, salt : Salts] : a.salt = <<>> => a.password = <<112>>}

\* the variant of the match arm, and the cost parameters the arm passes, told apart
\* by one number
MethodTag(method) ==
    CASE method = "Argon2id" -> 11
      [] method = "Argon2i" -> 23
      [] method = "Argon2d" -> 37
      [] method = "PBKDF2" -> 41
      [] method = "Scrypt" -> 53
      [] OTHER -> 0

\* hash_password_into and scrypt: they fill the key buffer with bytes that the
\* function, the password and the salt determine
Kdf(tag, password, salt, n) ==
    [i \in 1..n |-> (tag + SumSeq(password) + 3 * SumSeq(salt) + Len(salt) + i) % 256]

\* a derive_key that derives a key for HKDF with the default method
derive_key_hkdf_fallback(password, salt, method) ==
    IF method \in {"Argon2id", "Argon2i", "Argon2d"}
    THEN IF Len(salt) < Argon2MinSaltLength
         THEN ErrResult("KeyDerivation", "salt is too short")
         ELSE OkResult(Kdf(MethodTag(method), password, salt, KeyLength))
    ELSE IF method \in {"PBKDF2", "Scrypt"}
    THEN OkResult(Kdf(MethodTag(method), password, salt, KeyLength))
    ELSE OkResult(Kdf(MethodTag("Argon2id"), password, salt, KeyLength))

\* a derive_key whose key depends on the calls made before
derive_key_stateful(password, salt, method) ==
    IF method \in {"Argon2id", "Argon2i", "Argon2d"}
    THEN IF Len(salt) < Argon2MinSaltLength
         THEN ErrResult("KeyDerivation", "salt is too short")
         ELSE OkResult(Kdf(MethodTag(method) + Len(derive_log), password, salt, KeyLength))
    ELSE IF method \in {"PBKDF2", "Scrypt"}
    THEN OkResult(Kdf(MethodTag(method) + Len(derive_log), password, salt, KeyLength))
    ELSE ErrResult("KeyDerivation", "HKDF not yet implemented")

\* derive_key(password, salt, method)
derive_key(password, salt, method) ==
    IF method \in {"Argon2id", "Argon2i", "Argon2d"}
    THEN IF Len(salt) < Argon2MinSaltLength
         THEN ErrResult("KeyDerivation", "salt is too short")
         ELSE OkResult(Kdf(MethodTag(method), password, salt, KeyLength))
    ELSE IF method \in {"PBKDF2", "Scrypt"}
    THEN OkResult(Kdf(MethodTag(method), password, salt, KeyLength))
    ELSE ErrResult("KeyDerivation", "HKDF not yet implemented")

\* one call of derive_key; it reads the immutable encryption_params and writes nothing
DeriveKey(password, salt, method) ==
    /\ Len(derive_log) < MaxDerives
    /\ derive_log' = Append(derive_log,
                            [password |-> password, salt |-> salt, method |-> method,
                             result |-> derive_key(password, salt, method)])
    /\ UNCHANGED notDerive

DeriveIdle == derive_log = <<>>

(***************************************************************************)
(* PerformanceCache                                                        *)
(***************************************************************************)
\* advances of the cache clock in one behaviour
MaxCacheTicks == 3
\* get calls in one behaviour
MaxGets == 2

CacheKeys == {"k1", "k2"}
CacheData == {<<1>>, <<2>>}
CacheTtls == {1, 2}

NoGet == [key |-> "", result |-> None, returned |-> FALSE]

\* disk_cache.get(key): the cache built with time_to_live(cache_ttl) gives an entry
\* back while it is younger than cache_ttl
DiskGet(key) ==
    IF disk_cache = None THEN None
    ELSE LET entries == CHOOSE d \in disk_cache : TRUE
         IN  IF key \in DOMAIN entries /\ cache_now - entries[key].inserted_at < cache_ttl
             THEN Some(entries[key].data)
             ELSE None

\* PerformanceCache::get: the memory cache first, whatever the age of its entry, then
\* the disk cache; the counters
CacheGet(key) ==
    /\ hit_count + miss_count < MaxGets
    /\ LET result == IF key \in DOMAIN memory_cache THEN Some(memory_cache[key].data)
                     ELSE DiskGet(key)
       IN  /\ cache_get' = [key |-> key, result |-> result, returned |-> TRUE]
           /\ hit_count' = IF result # None THEN hit_count + 1 ELSE hit_count
           /\ miss_count' = IF result = None THEN miss_count + 1 ELSE miss_count
    /\ UNCHANGED <<memory_cache, disk_cache, cache_ttl, cache_now, last_set>>
    /\ UNCHANGED notCache

\* PerformanceCache::set: memory_cache.insert, then disk_cache.insert if there is one
CacheSet(key, bytes) ==
    /\ memory_cache' = MapInsert(memory_cache, key,
                                 [data |-> bytes, created_at |-> cache_now])
    /\ disk_cache' = {MapInsert(entries, key, [data |-> bytes, inserted_at |-> cache_now]) :
                         entries \in disk_cache}
    /\ last_set' = MapInsert(last_set, key, [data |-> bytes, at |-> cache_now])
    /\ cache_get' = NoGet
    /\ UNCHANGED <<hit_count, miss_count, cache_ttl, cache_now>>
    /\ UNCHANGED notCache

\* PerformanceCache::cleanup_expired: the memory entries older than cache_ttl go
CacheCleanupExpired ==
    /\ memory_cache' = MapRemoveAll(memory_cache,
                           {k \in DOMAIN memory_cache :
                                cache_now - memory_cache[k].created_at > cache_ttl})
    /\ cache_get' = NoGet
    /\ UNCHANGED <<disk_cache, hit_count, miss_count, cache_ttl, cache_now, last_set>>
    /\ UNCHANGED notCache

\* time passes
CacheTick ==
    /\ cache_now < MaxCacheTicks
    /\ cache_now' = cache_now + 1
    /\ cache_get' = NoGet
    /\ UNCHANGED <<memory_cache, disk_cache, hit_count, miss_count, cache_ttl, last_set>>
    /\ UNCHANGED notCache

\* PerformanceCache::new(config)
CacheNew ==
    /\ memory_cache = EmptyMap
    /\ disk_cache \in {None, Some(EmptyMap)}
    /\ hit_count = 0
    /\ miss_count = 0
    /\ cache_now = 0
    /\ cache_get = NoGet
    /\ last_set = EmptyMap

CacheIdle ==
    /\ CacheNew
    /\ disk_cache = Some(EmptyMap)
    /\ cache_ttl = 1

(***************************************************************************)
(* ConnectionPool                                                          *)
(***************************************************************************)
\* the largest connection_pool_size
MaxPoolSize == 2
\* get_connection and return_connection calls in one behaviour
MaxPoolCalls == 5

Endpoints == {"e1", "e2"}

\* format!("{}_{}", endpoint, pool.len())
ConnId(endpoint, n) == endpoint \o "_" \o ToString(n)

\* the first connection of the pool that is not busy, 0 if there is none
FirstFree(pool) ==
    IF \E i \in DOMAIN pool : ~pool[i].is_busy
    THEN CHOOSE i \in DOMAIN pool :
             ~pool[i].is_busy /\ \A j \in 1..(i - 1) : pool[j].is_busy
    ELSE 0

\* ConnectionPool::get_connection: connections.get_mut(endpoint) finds a free
\* connection or, below connection_pool_size, adds one; an endpoint that has no
\* entry in `connections` gets none
GetConnection(endpoint) ==
    /\ Len(pool_log) < MaxPoolCalls
    /\ IF endpoint \in DOMAIN connections
       THEN LET pool == connections[endpoint]
                free == FirstFree(pool)
                id == IF free # 0 THEN Some(pool[free].id)
                      ELSE IF Len(pool) < connection_pool_size
                      THEN Some(ConnId(endpoint, Len(pool)))
                      ELSE None
                pool1 == IF free # 0 THEN [pool EXCEPT ![free].is_busy = TRUE]
                         ELSE IF Len(pool) < connection_pool_size
                         THEN Append(pool, [id |-> ConnId(endpoint, Len(pool)),
                                            is_busy |-> TRUE])
                         ELSE pool
            IN  /\ connections' = [connections EXCEPT ![endpoint] = pool1]
                /\ active_connections' = IF id # None THEN active_connections + 1
                                          ELSE active_connections
                /\ pool_log' = Append(pool_log, [op |-> "get_connection",
                                                 endpoint |-> endpoint, result |-> id])
       ELSE /\ pool_log' = Append(pool_log, [op |-> "get_connection",
                                             endpoint |-> endpoint, result |-> None])
            /\ UNCHANGED <<connections, active_connections>>
    /\ UNCHANGED connection_pool_size
    /\ UNCHANGED notPool

\* ConnectionPool::return_connection: the connection of that id is free again, and
\* the counter goes down unless it is 0
ReturnConnection(endpoint, id) ==
    /\ Len(pool_log) < MaxPoolCalls
    /\ connections' =
           IF endpoint \in DOMAIN connections
           THEN [connections EXCEPT ![endpoint] =
                    [i \in DOMAIN @ |-> IF @[i].id = id THEN [@[i] EXCEPT !.is_busy = FALSE]
                                        ELSE @[i]]]
           ELSE connections
    /\ active_connections' = IF active_connections > 0 THEN active_connections - 1
                              ELSE active_connections
    /\ pool_log' = Append(pool_log, [op |-> "return_connection", endpoint |-> endpoint,
                                     result |-> Some(id)])
    /\ UNCHANGED connection_pool_size
    /\ UNCHANGED notPool

\* ConnectionPool::new(config)
PoolNew ==
    /\ connections = EmptyMap
    /\ active_connections = 0
    /\ pool_log = <<>>

PoolIdle ==
    /\ PoolNew
    /\ connection_pool_size = 1

(***************************************************************************)
(* generate_wallet and transfer_tokens                                     *)
(***************************************************************************)
NoWallet == [salt |-> <<>>, encrypted_private_key |-> <<>>]

\* SaltString::generate(&mut OsRng), salt.as_str().as_bytes(): 22 characters
WalletSalts == {ConstSeq(22, 65), ConstSeq(22, 97)}

\* keypair.secret().to_bytes()
PrivateKeys == {WalletKey(i) : i \in 1..3}

\* derive_encryption_key(password, salt): derive_key with Argon2id, every error
\* mapped to WalletError::Encryption
derive_encryption_key(password, salt) ==
    LET res == derive_key(password, salt, "Argon2id")
    IN  IF res.kind = "Ok" THEN res ELSE ErrResult("Encryption", res.error.message)

\* generate_wallet(password, network): the salt is generated, the key derived from
\* the password and the salt, the secret encrypted, and the Wallet holds the salt
\* and the blob
GenerateWallet(password, secret, salt, nonce) ==
    /\ wt_pc = "new"
    /\ wallet_password' = password
    /\ wallet_private_key' = secret
    /\ LET encryption_key == derive_encryption_key(password, salt)
           encrypted_private_key ==
               IF encryption_key.kind = "Ok"
               THEN encrypt_data(encryption_key.value, secret, nonce)
               ELSE encryption_key
       IN  IF encrypted_private_key.kind = "Ok"
           THEN /\ wallet' = [salt |-> salt,
                              encrypted_private_key |-> encrypted_private_key.value]
                /\ wt_pc' = "created"
           ELSE /\ wallet' = NoWallet
                /\ wt_pc' = "done"
    /\ UNCHANGED <<transfer_password, transfer_private_key, transfer_result>>
    /\ UNCHANGED notWallet

\* transfer_tokens(from_public_key, encrypted_private_key, password, to_public_key,
\* amount, ..) called with the blob of the wallet: validate_amount, the lock,
\* validate_transaction, check_rate_limit, the local limiter, then
\* derive_encryption_key(&password, &encrypted_private_key) and decrypt_data; the
\* rest of the command (the keypair, the network calls) ends one way or the other,
\* and the balance entries it invalidates at the end are not in the cache
TransferTokens(password, amount, rest) ==
    /\ wt_pc = "created"
    /\ app_lock = "free"
    /\ transfer_password' = password
    /\ wt_pc' = "done"
    /\ LET encrypted_private_key == wallet.encrypted_private_key
           valid == ValidateResult("a1", "a2", amount)
           chk == CheckRateLimit("transfer_a1", "transaction")
           loc == LocalLimiter("transfer_a1", TransferLocalLimit)
           encryption_key == derive_encryption_key(password, encrypted_private_key)
           private_key == IF encryption_key.kind = "Ok"
                          THEN decrypt_data(encryption_key.value, encrypted_private_key)
                          ELSE encryption_key
       IN  IF amount = 0
           THEN /\ transfer_result' = "InvalidInput"
                /\ transfer_private_key' = NoResult
                /\ UNCHANGED <<transaction_tracker, rate_limiter>>
           ELSE IF valid # "Ok"
           THEN /\ transfer_result' = "TransactionValidation"
                /\ transfer_private_key' = NoResult
                /\ UNCHANGED <<transaction_tracker, rate_limiter>>
           ELSE IF chk.result # "Ok"
           THEN /\ transfer_result' = "RateLimitExceeded"
                /\ transfer_private_key' = NoResult
                /\ transaction_tracker' = chk.tracker
                /\ UNCHANGED rate_limiter
           ELSE IF loc.result # "Ok"
           THEN /\ transfer_result' = "RateLimit"
                /\ transfer_private_key' = NoResult
                /\ transaction_tracker' = chk.tracker
                /\ rate_limiter' = loc.limiter
           ELSE /\ transaction_tracker' = chk.tracker
                /\ rate_limiter' = loc.limiter
                /\ transfer_private_key' = private_key
                /\ transfer_result' = IF private_key.kind # "Ok" THEN "Encryption"
                                      ELSE IF rest = "ok" THEN "Ok" ELSE "Err"
    /\ UNCHANGED <<wallet, wallet_private_key, wallet_password>>
    /\ UNCHANGED <<rate_limit_config, request_tracker, instant, ticks, client_id,
                   request_type, rl_pc, rl_now, rl_result, calls_in_window,
                   accepted_in_window, reset_from>>
    /\ UNCHANGED <<app_lock, cmd_pc, cmd_log, cmd_result, cmd_calls>>
    /\ UNCHANGED <<policyVars, bundleVars, retryVars, secureKeyVars, cipherVars,
                   deriveVars, cacheVars, poolVars>>

\* before generate_wallet is called
WalletIdle ==
    /\ wallet = NoWallet
    /\ wallet_private_key = <<>>
    /\ wallet_password = <<>>
    /\ transfer_password = <<>>
    /\ transfer_private_key = NoResult
    /\ transfer_result = "none"
    /\ wt_pc = "new"

(***************************************************************************)
(* Components that take no step in a specification                         *)
(***************************************************************************)
AuxIdle ==
    /\ RetryIdle /\ CmdIdle /\ SecureKeyIdle /\ CipherIdle /\ DeriveIdle
    /\ CacheIdle /\ PoolIdle /\ WalletIdle

(***************************************************************************)
(* Specifications                                                          *)
(***************************************************************************)
\* SecurityManager::new, and the arguments the callers will pass
RateNew ==
    /\ rate_limit_config \in RateLimitConfigs
    /\ request_tracker = EmptyMap
    /\ transaction_tracker = EmptyMap
    /\ instant = 0
    /\ ticks = 0
    /\ client_id \in Clients
    /\ request_type \in RequestTypes
    /\ rl_pc = [t \in Threads |-> "idle"]
    /\ rl_now = [t \in Threads |-> 0]
    /\ rl_result = [t \in Threads |-> "none"]
    /\ calls_in_window = 0
    /\ accepted_in_window = 0
    /\ reset_from = -1

\* one caller: the calls are sequential
NextRate ==
    \/ CheckBegin(1)
    \/ CheckGetMut(1)
    \/ CheckInsert(1)
    \/ \E d \in TickSteps : Tick(d)

NoStreak == [from |-> "", n |-> 0, start |-> 0]

InitRate ==
    /\ RateNew
    /\ PolicyNew /\ whitelist_enabled = FALSE /\ streak = NoStreak
    /\ BundleIdle
    /\ AuxIdle

SpecRate == InitRate /\ [][NextRate]_vars

\* several callers on the same (client_id, request_type)
NextRateConc ==
    \/ \E t \in Threads : CheckBegin(t)
    \/ \E t \in Threads : CheckGetMut(t)
    \/ \E t \in Threads : CheckInsert(t)
    \/ \E d \in TickSteps : Tick(d)

\* the callers share one client id
InitRateConc ==
    /\ InitRate
    /\ client_id = "c1"

SpecRateConc == InitRateConc /\ [][NextRateConc]_vars

\* the policy operations in any order, with the whitelist mode on or off
InitPolicy ==
    /\ RateNew
    /\ rate_limit_config = DefaultRateLimitConfig
    /\ client_id = "c1"
    /\ request_type = "request"
    /\ PolicyNew
    /\ whitelist_enabled \in BOOLEAN
    /\ streak = NoStreak
    /\ BundleIdle
    /\ AuxIdle

NextPolicy ==
    \/ \E from \in Addresses, to \in Addresses, amount \in Amounts :
           ValidateTransaction(from, to, amount)
    \/ \E a \in Addresses, d \in BanDurations : BanAddress(a, d)
    \/ \E a \in Addresses : AddToWhitelist(a)
    \/ \E a \in Addresses : AddToBlacklist(a)
    \/ CleanupExpired
    \/ UtcTick(1)

SpecPolicy == InitPolicy /\ [][NextPolicy]_vars

\* a fresh manager, one sender calling validate_transaction over and over
InitScenarioC ==
    /\ RateNew
    /\ client_id = "c1"
    /\ request_type = "transaction"
    /\ PolicyNew
    /\ whitelist_enabled = FALSE
    /\ \E from \in Addresses : streak = [from |-> from, n |-> 0, start |-> 0]
    /\ BundleIdle
    /\ AuxIdle

NextScenarioC ==
    \/ \E to \in Addresses, amount \in Amounts : ScenarioValidate(to, amount)
    \/ \E d \in {1, TransactionWindowSecs} : UtcTick(d)

SpecScenarioC == InitScenarioC /\ [][NextScenarioC]_vars

\* one launch_snipe_bundle call, for every configuration and every way its
\* decryption, its builds and its network calls can end
InitLaunch ==
    /\ RateNew
    /\ rate_limit_config = DefaultRateLimitConfig
    /\ client_id = "c1"
    /\ request_type = "request"
    /\ PolicyNew /\ whitelist_enabled = FALSE /\ streak = NoStreak
    /\ BundleNew
    /\ launch_config \in [enable_launch_snipe : BOOLEAN,
                          buy_amount_percentage : BuyPercentages,
                          max_buy_amount_sol : MaxBuySols,
                          use_jito : BOOLEAN,
                          tip_lamports : TipValues]
    /\ metadata \in [initial_liquidity_sol : LiquiditySols]
    /\ bundle_wallets = 1
    /\ use_mev_protection = TRUE
    /\ jito_enabled \in BOOLEAN
    /\ randomize_timing \in BOOLEAN
    /\ AuxIdle

NextLaunch ==
    \/ LsStart
    \/ \E r \in {"ok", "DecryptFailed", "BundleConstruction"} : LsDecrypt(r)
    \/ \E valid \in BOOLEAN : LsNetwork(valid)
    \/ \E ok \in BOOLEAN : LsBlockhash(ok)
    \/ \E ok \in BOOLEAN : LsBuildLaunch(ok)
    \/ LsBuildSnipe
    \/ LsJitter
    \/ \E outcome \in RelayOutcomes : LsSubmitJito(outcome)
    \/ \E ok \in BOOLEAN : LsSendLaunch(ok)
    \/ LsSettle
    \/ \E ok \in BOOLEAN : LsSendSnipe(ok)

SpecLaunch == InitLaunch /\ [][NextLaunch]_vars

\* one execute_bundle_buy call, for every number of wallets and every way its
\* builds, its sends and its relay post can end
InitBundleBuy ==
    /\ RateNew
    /\ rate_limit_config = DefaultRateLimitConfig
    /\ client_id = "c1"
    /\ request_type = "request"
    /\ PolicyNew /\ whitelist_enabled = FALSE /\ streak = NoStreak
    /\ BundleNew
    /\ launch_config = DefaultLaunchConfig
    /\ metadata = [initial_liquidity_sol |-> Dec(1, 0)]
    /\ randomize_timing = TRUE
    /\ jito_enabled \in BOOLEAN
    /\ bundle_wallets \in 0..MaxWallets
    /\ use_mev_protection \in BOOLEAN
    /\ AuxIdle

NextBundleBuy ==
    \/ EbStart
    \/ \E r \in {"ok", "DecryptFailed", "BundleConstruction", "InvalidMetadata"} :
           EbBuild(r)
    \/ \E outcome \in RelayOutcomes : EbSubmitJito(outcome)
    \/ \E ok \in BOOLEAN : EbSend(ok)
    \/ EbDelay

SpecBundleBuy == InitBundleBuy /\ [][NextBundleBuy]_vars

\* the two commands of the interface, one call of each, in any interleaving
InitBundler ==
    /\ RateNew
    /\ rate_limit_config = DefaultRateLimitConfig
    /\ client_id = "c1"
    /\ request_type = "request"
    /\ PolicyNew /\ whitelist_enabled = FALSE /\ streak = NoStreak
    /\ BundleNew
    /\ \E use_jito \in BOOLEAN :
           launch_config = [DefaultLaunchConfig EXCEPT !.use_jito = use_jito]
    /\ metadata = [initial_liquidity_sol |-> Dec(1, 0)]
    /\ randomize_timing = TRUE
    /\ jito_enabled \in BOOLEAN
    /\ bundle_wallets \in 0..MaxWallets
    /\ use_mev_protection \in BOOLEAN
    /\ AuxIdle

NextBundler == NextLaunch \/ NextBundleBuy

SpecBundler == InitBundler /\ [][NextBundler]_vars

\* the security manager and the interface as they are constructed, no call made
CoreIdle ==
    /\ RateNew
    /\ rate_limit_config = DefaultRateLimitConfig
    /\ client_id = "c1"
    /\ request_type = "request"
    /\ PolicyNew /\ whitelist_enabled = FALSE /\ streak = NoStreak
    /\ BundleIdle

\* one execute_with_retry call, for every max_retries and every way the runs of
\* its operation can end
InitRetry ==
    /\ CoreIdle
    /\ CmdIdle
    /\ SecureKeyIdle
    /\ CipherIdle
    /\ DeriveIdle
    /\ CacheIdle
    /\ PoolIdle
    /\ WalletIdle
    /\ RetryNew
    /\ max_retries \in 0..MaxRetries

NextRetry ==
    \/ \E outcome \in OperationOutcomes : RetryAttempt(outcome)
    \/ RetrySleep

SpecRetry == InitRetry /\ [][NextRetry]_vars

\* the commands, called in any order and at any time
InitCommands ==
    /\ CoreIdle
    /\ RetryIdle
    /\ SecureKeyIdle
    /\ CipherIdle
    /\ DeriveIdle
    /\ CacheIdle
    /\ PoolIdle
    /\ WalletIdle
    /\ CmdIdle

NextCommands ==
    \/ \E c \in Commands : CmdCall(c)
    \/ \E c \in Commands : CmdLock(c)
    \/ \E c \in Commands : CmdGate(c)
    \/ \E c \in Commands, outcome \in NetworkOutcomes : CmdNetwork(c, outcome)

SpecCommands == InitCommands /\ [][NextCommands]_vars

(***************************************************************************)
(* Claims on check_rate_limit                                              *)
(***************************************************************************)
Entry == Tracker(request_type)[client_id]
HasWindow == request_type \in LimitedTypes /\ client_id \in DOMAIN Tracker(request_type)

\* C1: with limit N >= 1, the first N calls against one window (from its creation
\* or reset on) all return Ok and raise the count to the number of calls made; the
\* calls after the N-th return RateLimitExceeded and leave the count at N.
C1_LimitPerWindow ==
    (HasWindow /\ rl_pc[1] = "idle") =>
        LET N == Limit(request_type) IN
        /\ calls_in_window <= N =>
               (rl_result[1] = "Ok" /\ Entry.count = calls_in_window)
        /\ calls_in_window > N =>
               (rl_result[1] = "RateLimitExceeded" /\ Entry.count = N)

\* the 61st request call of one window has just been rejected
C1_Witness ==
    /\ HasWindow /\ rl_pc[1] = "idle"
    /\ request_type = "request"
    /\ rate_limit_config = DefaultRateLimitConfig
    /\ calls_in_window = MaxRequestsPerMinute + 1
    /\ rl_result[1] = "RateLimitExceeded"

\* a step in which thread t runs the `Some` branch of check_rate_limit
EvaluatesEntry(t) ==
    /\ HasWindow
    /\ rl_pc[t] = "get_mut"
    /\ rl_pc'[t] = "idle"

\* C2: a call that finds the window started strictly more than the window length
\* ago returns Ok and leaves count = 1 and window_start = its `now`, whatever the
\* count was; a window's start or count is taken back in no other step.
C2_LazyReset ==
    [][ /\ \A t \in Threads :
              (EvaluatesEntry(t) /\ instant - Entry.last_reset > Window(request_type)) =>
                  /\ rl_result'[t] = "Ok"
                  /\ TrackerNext(request_type)[client_id] =
                         [count |-> 1, last_reset |-> rl_now[t]]
        /\ (HasWindow /\ ( \/ TrackerNext(request_type)[client_id].count < Entry.count
                           \/ TrackerNext(request_type)[client_id].last_reset
                                  # Entry.last_reset )) =>
              \E t \in Threads :
                  EvaluatesEntry(t) /\ instant - Entry.last_reset > Window(request_type)
      ]_vars

\* a transaction window that was full has just been reset by an accepted call
C2_Witness ==
    /\ HasWindow /\ rl_pc[1] = "idle"
    /\ request_type = "transaction"
    /\ rate_limit_config = DefaultRateLimitConfig
    /\ reset_from = MaxTransactionsPerHour
    /\ calls_in_window = 1
    /\ Entry.count = 1
    /\ Entry.last_reset = rl_now[1]
    /\ rl_result[1] = "Ok"

\* C3: a call that returns RateLimitExceeded leaves both trackers as they were.
C3_RejectLeavesWindow ==
    [][ \A t \in Threads :
            (rl_pc[t] # "idle" /\ rl_pc'[t] = "idle"
                 /\ rl_result'[t] = "RateLimitExceeded") =>
                (request_tracker' = request_tracker
                     /\ transaction_tracker' = transaction_tracker)
      ]_vars

\* a call was rejected: more calls were made in the window than it counts
C3_Witness ==
    /\ HasWindow /\ rl_pc[1] = "idle"
    /\ rl_result[1] = "RateLimitExceeded"
    /\ calls_in_window > Entry.count
    /\ Entry.count = Limit(request_type)

\* C4: under every interleaving of calls for the same (client, category) the stored
\* count equals the number of calls accepted in the window.
C4_NoLostIncrement ==
    HasWindow => Entry.count = accepted_in_window

(***************************************************************************)
(* Claims on validate_transaction and ban_address                          *)
(***************************************************************************)
Validated == validation.result # "none"

\* C5: the result of validate_transaction is the rejection of the first policy that
\* matches in the order ban, whitelist, blacklist, daily volume, and Ok exactly when
\* none matches.
C5_FirstMatchWins ==
    Validated =>
        LET ban == BanMatches(validation.from, validation.to)
            wl == WhitelistMatches(validation.to)
            bl == BlacklistMatches(validation.to)
            vol == VolumeMatches(validation.from, validation.amount)
        IN  /\ (validation.result = "Banned") <=> ban
            /\ (validation.result = "NotWhitelisted") <=> (~ban /\ wl)
            /\ (validation.result = "Blacklisted") <=> (~ban /\ ~wl /\ bl)
            /\ (validation.result = "DailyLimit") <=> (~ban /\ ~wl /\ ~bl /\ vol)
            /\ (validation.result = "Ok") <=> (~ban /\ ~wl /\ ~bl /\ ~vol)

\* a transfer that the ban, the whitelist and the blacklist would each reject was
\* reported as banned
C5_Witness ==
    /\ Validated
    /\ validation.from \in DOMAIN banned_addresses
    /\ WhitelistMatches(validation.to)
    /\ BlacklistMatches(validation.to)
    /\ validation.result = "Banned"

\* C6: a transfer to a blacklisted address is never accepted, whether or not the
\* address is whitelisted and whether the whitelist mode is on or off.
C6_BlacklistedRejected ==
    (Validated /\ validation.to \in blacklist) => validation.result # "Ok"

\* a destination in both lists was rejected, with the whitelist mode on
C6_Witness ==
    /\ Validated
    /\ validation.to \in blacklist
    /\ validation.to \in whitelist
    /\ whitelist_enabled
    /\ validation.result = "Blacklisted"

\* C7 as stated: up to the expiry now + d of any ban_address(a, d) call with d > 0,
\* every transfer from or to a is rejected.
C7_BannedUntilExpiry ==
    Validated =>
        \A a \in {validation.from, validation.to} :
            ban_until[a] >= utc_now => validation.result # "Ok"

\* C7 as amended: up to the expiry recorded by the latest ban_address call for a,
\* every transfer from or to a is rejected as banned.
C7_BannedUntilLatestExpiry ==
    Validated =>
        \A a \in {validation.from, validation.to} :
            last_ban[a] >= utc_now => validation.result = "Banned"

\* a transfer to a banned, whitelisted address from an address that is not banned
\* was rejected before the ban expired
C7_Witness ==
    /\ Validated
    /\ last_ban[validation.to] > utc_now
    /\ validation.from \notin DOMAIN banned_addresses
    /\ validation.to \in whitelist
    /\ validation.result = "Banned"

\* C8: with the transaction limit at 5 per hour, of six validate_transaction calls
\* one sender makes in a row within the hour the first five return Ok and the sixth
\* returns RateLimitExceeded.
C8_SixthCallRejected ==
    (/\ Validated
     /\ rate_limit_config.max_transactions_per_hour = 5
     /\ utc_now - streak.start <= TransactionWindowSecs) =>
        /\ streak.n \in 1..5 => validation.result = "Ok"
        /\ streak.n = 6 => validation.result = "RateLimitExceeded"

(***************************************************************************)
(* Claims on the relay tip and on the sequential fallback                  *)
(***************************************************************************)
Clamp(v, lo, hi) == IF v < lo THEN lo ELSE IF v > hi THEN hi ELSE v

\* C9: the tip of every bundle request is the requested tip clamped into
\* [min_tip_lamports, max_tip_lamports].
C9_TipClamped ==
    \A i \in DOMAIN relay_requests :
        \A v \in relay_requests[i].requested :
            relay_requests[i].tip = Clamp(v, MinTipLamports, MaxTipLamports)

Performed(e) == \E i \in DOMAIN events : events[i] = e

\* C10: when the fallback has sent the launch and the snipe send fails, the call
\* returns a result that carries the mint address and the launch signature and no
\* snipe signature.
C10_PartialOutcomeSurfaced ==
    (ls_pc = "done" /\ Performed("send_launch:ok") /\ Performed("send_snipe:err")) =>
        /\ ls_outcome.kind = "Ok"
        /\ ls_outcome.mint_address # None
        /\ ls_outcome.launch_signature # None
        /\ ls_outcome.snipe_signature = None

(***************************************************************************)
(* Claims on launch_snipe_bundle                                           *)
(***************************************************************************)
SentIndividually ==
    \E i \in DOMAIN events :
        events[i] \in {"send_launch:ok", "send_launch:err", "send_snipe:ok", "send_snipe:err"}

RelayPosted == \E o \in RelayOutcomes : Performed("relay_post:" \o o)

\* C11: when the call's configuration and the relay configuration both enable
\* bundling, launch_snipe_bundle posts at most one relay request and sends neither
\* transaction by itself; once it has submitted, there is exactly one request, its
\* transaction list is [launch_tx, snipe_tx], and the call returns the confirmed
\* result when the relay accepted the bundle and an error when it did not.
C11_AtomicBundleOnly ==
    UseJito =>
        /\ ~SentIndividually
        /\ Len(relay_requests) <= 1
        /\ \A i \in DOMAIN relay_requests :
               relay_requests[i].params = <<"launch_tx", "snipe_tx">>
        /\ RelayPosted =>
               /\ Len(relay_requests) = 1
               /\ ls_pc = "done"
               /\ IF Performed("relay_post:ok")
                  THEN ls_outcome.kind = "Ok" /\ ls_outcome.mev_protected
                  ELSE ls_outcome.kind = "Err"

C11_Witness ==
    /\ UseJito
    /\ ls_pc = "done"
    /\ RelayPosted
    /\ ~Performed("relay_post:ok")
    /\ ls_outcome.kind = "Err"

DecEq(a, b) == DecLE(a, b) /\ DecLE(b, a)

\* liquidity_amount x buy_percentage and max_buy_cap, in lamports
LiquidityShareLamports ==
    AsU64(DecMul(InitialLiquidityLamports(metadata), launch_config.buy_amount_percentage))
MaxBuyCapLamports == AsU64(DecMul(launch_config.max_buy_amount_sol, LamportsPerSol))

\* C12: the buy amount of the snipe leg is min(liquidity_amount x buy_percentage,
\* max_buy_cap), the three amounts in lamports.
C12_BuyAmountIsCappedShare ==
    \A amount \in final_snipe_amount :
        DecEq(amount, DecMin(LiquidityShareLamports, MaxBuyCapLamports))

(***************************************************************************)
(* Claims on send_via_jito_bundle                                          *)
(***************************************************************************)
\* C13: send_via_jito_bundle returns a bundle identifier exactly when the relay
\* answered with a success status and a JSON body whose `result` is a string; in
\* every other case it returns the JitoApi error.
C13_BundleIdOnlyFromStringResult ==
    \A i \in DOMAIN relay_responses :
        LET r == relay_responses[i]
        IN  IF /\ r.response.transport_ok
               /\ r.response.status_success
               /\ r.response.json_ok
               /\ r.response.result = "string"
            THEN r.returned = [kind |-> "Ok", value |-> "bundle:hash"]
            ELSE r.returned = [kind |-> "Err", value |-> "JitoApi"]

C13_Witness ==
    \E i \in DOMAIN relay_responses :
        /\ relay_responses[i].response.status_success
        /\ relay_responses[i].response.result = "number"
        /\ relay_responses[i].returned.kind = "Err"

(***************************************************************************)
(* Claims on execute_bundle_buy                                            *)
(***************************************************************************)
Wallets == 1..bundle_wallets

SendOf(i) == {k \in DOMAIN eb_events : eb_events[k].op = "send" /\ eb_events[k].wallet = i}
SendOk(i) == \E k \in SendOf(i) : eb_events[k].ok
SendFailed(i) == \E k \in SendOf(i) : ~eb_events[k].ok

\* C14: with MEV protection off, a call in which the send of some wallet failed
\* has still attempted the send of every wallet when it returns, and it returns the
\* aggregate: the signatures of the successful sends, and a success count and a
\* failure count that sum to the number of wallets.
C14_BestEffortAcrossWallets ==
    (/\ ~use_mev_protection
     /\ eb_pc = "done"
     /\ \E i \in Wallets : SendFailed(i)) =>
        /\ \A i \in Wallets : SendOf(i) # {}
        /\ eb_outcome.kind = "Ok"
        /\ Len(eb_outcome.signatures) = Cardinality({i \in Wallets : SendOk(i)})
        /\ eb_outcome.success_count = Cardinality({i \in Wallets : SendOk(i)})
        /\ eb_outcome.success_count + eb_outcome.error_count = bundle_wallets

FirstSend == CHOOSE k \in DOMAIN eb_events :
                 /\ eb_events[k].op = "send"
                 /\ \A j \in DOMAIN eb_events : eb_events[j].op = "send" => k <= j
LastSend == CHOOSE k \in DOMAIN eb_events :
                /\ eb_events[k].op = "send"
                /\ \A j \in DOMAIN eb_events : eb_events[j].op = "send" => j <= k
DelaysBetweenSends ==
    Cardinality({k \in DOMAIN eb_events :
                    eb_events[k].op = "delay" /\ FirstSend < k /\ k < LastSend})

\* C15: with MEV protection off, a call over N >= 1 wallets in which the send of
\* every wallet succeeded returns the N signatures in wallet order, with
\* total_transactions = N, success_count = N and error_count = 0, and at least
\* N - 1 delays lie between its first and its last send.
C15_AllSendsSucceed ==
    (/\ ~use_mev_protection
     /\ bundle_wallets >= 1
     /\ eb_pc = "done"
     /\ \A i \in Wallets : SendOk(i)) =>
        /\ eb_outcome.kind = "Ok"
        /\ eb_outcome.signatures = [i \in Wallets |-> Signature(SwapTx(i))]
        /\ eb_outcome.total_transactions = bundle_wallets
        /\ eb_outcome.success_count = bundle_wallets
        /\ eb_outcome.error_count = 0
        /\ DelaysBetweenSends >= bundle_wallets - 1

C15_Witness ==
    /\ ~use_mev_protection
    /\ bundle_wallets = MaxWallets
    /\ eb_pc = "done"
    /\ \A i \in Wallets : SendOk(i)
    /\ eb_outcome.success_count = MaxWallets

AcceptedByRelay(tx) ==
    \E i \in DOMAIN relay_requests :
        /\ \E k \in DOMAIN relay_requests[i].params : relay_requests[i].params[k] = tx
        /\ relay_responses[i].returned.kind = "Ok"

\* C17: a result of execute_bundle_buy with error count 0, and a result of
\* launch_snipe_bundle with a snipe signature, is returned only when every wallet's
\* transaction, respectively each of the two legs, was sent successfully or was
\* part of a bundle the relay accepted; no send of the call has failed.
C17_NoFalseSuccess ==
    /\ (eb_outcome.kind = "Ok" /\ eb_outcome.error_count = 0) =>
           /\ \A i \in Wallets : SendOk(i) \/ AcceptedByRelay(SwapTx(i))
           /\ \A i \in Wallets : ~SendFailed(i)
    /\ (ls_outcome.kind = "Ok" /\ ls_outcome.snipe_signature # None) =>
           /\ Performed("send_launch:ok") \/ AcceptedByRelay("launch_tx")
           /\ Performed("send_snipe:ok") \/ AcceptedByRelay("snipe_tx")
           /\ ~Performed("send_launch:err")
           /\ ~Performed("send_snipe:err")

C17_Witness ==
    /\ eb_outcome.kind = "Ok"
    /\ eb_outcome.error_count = 0
    /\ bundle_wallets >= 2
    /\ ls_outcome.kind = "Ok"
    /\ ls_outcome.snipe_signature # None
    /\ Performed("send_snipe:ok")

(***************************************************************************)
(* Claims on the course of launch_snipe_bundle                             *)
(***************************************************************************)
\* C18: with launch+snipe disabled in the configuration the call performs no
\* decryption, build, delay or network call, and it returns the
\* LaunchSnipeFailed error in its first step.
C18_DisabledFailsFirst ==
    ~launch_config.enable_launch_snipe =>
        /\ events = <<>>
        /\ relay_requests = <<>>
        /\ final_snipe_amount = None
        /\ ls_pc \in {"start", "done"}
        /\ ls_pc = "done" => ls_outcome = LsErr("LaunchSnipeFailed")

C18_Witness ==
    /\ ~launch_config.enable_launch_snipe
    /\ ls_pc = "done"
    /\ ls_outcome = LsErr("LaunchSnipeFailed")

SubmissionEvents ==
    {"send_launch:ok", "send_launch:err", "settle_delay", "send_snipe:ok", "send_snipe:err"}
        \cup {"relay_post:" \o o : o \in RelayOutcomes}

\* the place of a step in the course build launch, build snipe, jitter, submission
Rank(e) ==
    CASE e = "build_launch" -> 1
      [] e = "build_snipe" -> 2
      [] e = "jitter_delay" -> 3
      [] e \in SubmissionEvents -> 4
      [] OTHER -> 0

Count(e) == Cardinality({i \in DOMAIN events : events[i] = e})

\* the terminal outcome a returned value stands for
TerminalOutcome(o) ==
    IF o.kind = "Err" THEN "Failed"
    ELSE IF o.mev_protected THEN "Confirmed"
    ELSE IF o.snipe_signature = None THEN "PartiallyConfirmed"
    ELSE "FallbackCompleted"

Returned == ls_outcome.kind # "none"

InOrder ==
    /\ \A i, j \in DOMAIN events : i < j => Rank(events[i]) <= Rank(events[j])
    /\ Count("build_launch") <= 1
    /\ Count("build_snipe") <= 1
    /\ (\E i \in DOMAIN events : Rank(events[i]) >= 3) =>
           Count("build_launch") = 1 /\ Count("build_snipe") = 1
    /\ Returned <=> ls_pc = "done"
    /\ Returned => ls_outcome.kind \in {"Ok", "Err"}
    /\ Returned => TerminalOutcome(ls_outcome) \in
                       {"Confirmed", "PartiallyConfirmed", "FallbackCompleted", "Failed"}
    /\ (Returned /\ ls_outcome.kind = "Ok") =>
           \E i \in DOMAIN events : Rank(events[i]) = 4

\* C19: the steps of a launch_snipe_bundle run come in the order build launch, build
\* snipe, jitter delay, submission; the run returns one outcome, which is Confirmed,
\* PartiallyConfirmed, FallbackCompleted or Failed; and once it has returned, no
\* further step is taken, no transaction is sent and the outcome stays as it is.
C19_OrderedStepsFinalOutcome ==
    /\ []InOrder
    /\ [][Returned => /\ ls_outcome' = ls_outcome
                       /\ events' = events
                       /\ relay_requests' = relay_requests]_vars

C19_Witness ==
    /\ Returned
    /\ TerminalOutcome(ls_outcome) = "FallbackCompleted"
    /\ Count("jitter_delay") = 1
    /\ Performed("send_snipe:ok")

\* C20: a launch_snipe_bundle run has at most one jitter delay; the delay occurs
\* only with randomize_timing on, after both transactions are built and before the
\* first transaction is submitted; with randomize_timing on no transaction is
\* submitted without it, and with randomize_timing off there is none.
C20_JitterOnceBeforeSubmission ==
    /\ Count("jitter_delay") <= 1
    /\ Performed("jitter_delay") => randomize_timing
    /\ \A i \in DOMAIN events :
           events[i] = "jitter_delay" =>
               /\ \E j \in 1..(i - 1) : events[j] = "build_launch"
               /\ \E j \in 1..(i - 1) : events[j] = "build_snipe"
               /\ \A j \in 1..(i - 1) : events[j] \notin SubmissionEvents
    /\ (randomize_timing /\ \E i \in DOMAIN events : events[i] \in SubmissionEvents) =>
           Performed("jitter_delay")

C20_Witness ==
    /\ ~randomize_timing
    /\ ls_pc = "done"
    /\ Performed("send_snipe:ok")
    /\ ~Performed("jitter_delay")

(***************************************************************************)
(* Claims on retrying                                                      *)
(***************************************************************************)
Attempts == {i \in DOMAIN retry_log : retry_log[i].op = "attempt"}

\* C21: an operation that fails with a transient failure is run again, after a
\* delay, as long as attempts are left, and an operation that fails with a failure
\* of another kind is not run again.
C21_OnlyTransientRetried ==
    /\ \A i \in Attempts :
           retry_log[i].outcome \in PermanentFailures =>
               \A j \in Attempts : j <= i
    /\ (retry_pc = "done" /\ retry_result.kind = "Err"
            /\ retry_result.error \in TransientFailures) =>
           Cardinality(Attempts) = max_retries + 1

\* a SecureKey of any key material, accessed with callbacks that succeed or fail
InitSecureKey ==
    /\ CoreIdle
    /\ RetryIdle
    /\ CmdIdle
    /\ CipherIdle
    /\ DeriveIdle
    /\ CacheIdle
    /\ PoolIdle
    /\ WalletIdle
    /\ SecureKeyNew
    /\ key_material \in KeyMaterials

NextSecureKey ==
    \/ \E r \in {"Ok", "Err"} : Access(r)
    \/ DropSecureKey

SpecSecureKey == InitSecureKey /\ [][NextSecureKey]_vars

\* data encrypted under any key, the blob stored, perhaps changed, and decrypted
\* under any key
InitCipher ==
    /\ CoreIdle
    /\ RetryIdle
    /\ CmdIdle
    /\ SecureKeyIdle
    /\ DeriveIdle
    /\ CacheIdle
    /\ PoolIdle
    /\ WalletIdle
    /\ CipherNew
    /\ enc_key \in Keys
    /\ data \in Datas

NextCipher ==
    \/ \E nonce \in Nonces : EncryptCall(nonce)
    \/ \E i \in 1..(NonceLength + MaxData + TagLength), d \in ByteDeltas : Tamper(i, d)
    \/ \E n \in 0..(NonceLength + MaxData + TagLength) : Truncate(n)
    \/ \E key \in Keys : DecryptCall(key)

SpecCipher == InitCipher /\ [][NextCipher]_vars

\* the operations on the bans and the other operations of the manager, in any order
InitBans ==
    /\ RateNew
    /\ rate_limit_config = [max_requests_per_minute |-> 5, max_transactions_per_hour |-> 5]
    /\ client_id = "c1"
    /\ request_type = "request"
    /\ PolicyNew
    /\ whitelist_enabled = FALSE
    /\ streak = NoStreak
    /\ BundleIdle
    /\ AuxIdle

NextBans ==
    \/ \E to \in Addresses : ValidateTransaction("a1", to, 1000)
    \/ \E a \in Addresses, d \in BanDurations : BanAddress(a, d)
    \/ AddToWhitelist("a2")
    \/ AddToBlacklist("a2")
    \/ CleanupExpired
    \/ UtcTick(1)
    \/ CheckBegin(1)
    \/ CheckGetMut(1)
    \/ CheckInsert(1)

SpecBans == InitBans /\ [][NextBans]_vars

\* derive_key called again and again, with any password, salt and method
InitDerive ==
    /\ CoreIdle
    /\ RetryIdle
    /\ CmdIdle
    /\ SecureKeyIdle
    /\ CipherIdle
    /\ DeriveIdle
    /\ CacheIdle
    /\ PoolIdle
    /\ WalletIdle

NextDerive ==
    \E a \in DeriveArguments, method \in KeyDerivationMethods :
        DeriveKey(a.password, a.salt, method)

SpecDerive == InitDerive /\ [][NextDerive]_vars

\* a cache with or without its disk cache: set, get and cleanup_expired at any time
InitCache ==
    /\ CoreIdle
    /\ RetryIdle /\ CmdIdle /\ SecureKeyIdle /\ CipherIdle
    /\ derive_log = <<>>
    /\ PoolIdle
    /\ WalletIdle
    /\ CacheNew
    /\ cache_ttl \in CacheTtls

NextCache ==
    \/ \E key \in CacheKeys, bytes \in CacheData : CacheSet(key, bytes)
    \/ \E key \in CacheKeys : CacheGet(key)
    \/ CacheCleanupExpired
    \/ CacheTick

SpecCache == InitCache /\ [][NextCache]_vars

\* a new pool: get_connection and return_connection in any order
InitPool ==
    /\ CoreIdle
    /\ RetryIdle /\ CmdIdle /\ SecureKeyIdle /\ CipherIdle
    /\ derive_log = <<>>
    /\ CacheIdle
    /\ WalletIdle
    /\ PoolNew
    /\ connection_pool_size \in 1..MaxPoolSize

NextPool ==
    \/ \E endpoint \in Endpoints : GetConnection(endpoint)
    \/ \E endpoint \in Endpoints : ReturnConnection(endpoint, ConnId(endpoint, 0))

SpecPool == InitPool /\ [][NextPool]_vars

\* a wallet is generated and then used for a transfer, on a new manager
InitWallet ==
    /\ CoreIdle
    /\ RetryIdle /\ CmdIdle /\ SecureKeyIdle /\ CipherIdle
    /\ derive_log = <<>>
    /\ CacheIdle /\ PoolIdle
    /\ WalletIdle

NextWallet ==
    \/ \E password \in Passwords, secret \in PrivateKeys, salt \in WalletSalts,
          nonce \in Nonces :
           GenerateWallet(password, secret, salt, nonce)
    \/ \E password \in Passwords, amount \in Amounts, rest \in {"ok", "err"} :
           TransferTokens(password, amount, rest)

SpecWallet == InitWallet /\ [][NextWallet]_vars

\* the commands the rate-limit rule names
RateLimitedCommands == {"transfer_tokens", "send_bundle_transaction",
                        "launch_snipe_bundle", "execute_bundle_buy"}

Positions(c, ev) == {i \in DOMAIN cmd_log[c] : cmd_log[c][i] = ev}

\* C22: in transfer_tokens, send_bundle_transaction, launch_snipe_bundle and
\* execute_bundle_buy a network call is made only after a rate-limit check of the
\* call has passed, and a call whose rate-limit check was rejected makes no network
\* call.
C22_RateCheckBeforeNetwork ==
    \A c \in RateLimitedCommands :
        /\ \A n \in Positions(c, "network") :
               \E r \in Positions(c, "rate_check:ok") : r < n
        /\ Positions(c, "rate_check:rejected") # {} => Positions(c, "network") = {}

\* C23: a command whose network call never responds blocks only itself: a command
\* that waits for the application lock meanwhile finds it free.
C23_StuckCallBlocksOnlyItself ==
    \A c \in Commands, d \in Commands :
        (c # d /\ cmd_pc[c] = "stuck" /\ cmd_pc[d] = "lock") => app_lock = "free"

IsZeroed(buf) == \A i \in DOMAIN buf : buf[i] = 0

\* C24: once the callback of SecureKey::access has returned, with success or with
\* failure, every byte of the key buffer is zero.
C24_ZeroAfterAccess ==
    sk_returned # "none" => IsZeroed(key_material)

\* the launch_snipe_bundle call is at or past its first submission, or has returned
LsSubmissionStarted == ls_pc \in {"submit", "settle", "send_snipe", "done"}
\* the execute_bundle_buy call is at or past its first submission, or has returned
EbSubmissionStarted == eb_pc \in {"submit", "send", "delay", "done"}

\* C25: in launch_snipe_bundle and execute_bundle_buy every buffer that received
\* decrypted private key bytes holds only zeros from the moment the first network
\* submission starts, and on every return of the call.
C25_KeyBytesZeroedBeforeSubmission ==
    /\ LsSubmissionStarted => \A buf \in private_key_bytes : IsZeroed(buf)
    /\ EbSubmissionStarted =>
           \A i \in DOMAIN wallet_key_bytes : IsZeroed(wallet_key_bytes[i])

\* decrypt_data has returned
Decrypted == cb_pc = "done" /\ decrypted.kind # "none"

\* C26: under every 32-byte key encrypt_data succeeds and decrypt_data of its output
\* under the same key returns exactly the data; decrypt_data of the output with one
\* byte changed, in the nonce, the ciphertext or the tag, fails.
C26_RoundTripAndTamper ==
    /\ (encrypted.kind # "none" /\ Len(enc_key) = AesKeyLength) => encrypted.kind = "Ok"
    /\ (Decrypted /\ dec_key = enc_key) =>
           /\ blob_change = "none" => decrypted = OkResult(data)
           /\ blob_change = "tampered" => decrypted.kind = "Err"

C26_Witness ==
    /\ Decrypted
    /\ dec_key = enc_key
    /\ Len(data) > 0
    /\ blob_change = "tampered"
    /\ decrypted.kind = "Err"

\* the one error of a failed tag verification
AeadError == ErrResult("Encryption", "aead::Error")

\* decrypt_data ran under a 32-byte key on a blob of 12 bytes or more that is not
\* the untouched output of encrypt_data under that key
TagCheckFails ==
    /\ Decrypted
    /\ Len(dec_key) = AesKeyLength
    /\ Len(encrypted_data) >= NonceLength
    /\ dec_key # enc_key \/ blob_change # "none"

\* C27 (as the code has it): encrypt_data under a key that is not 32 bytes long
\* fails with InvalidKeyMaterial and returns no output; decrypt_data fails with
\* Encryption when the blob is shorter than 12 bytes, whatever the key, and when
\* the tag does not verify under a 32-byte key; a wrong 32-byte key and a tampered
\* blob give one and the same error.
C27_ErrorKinds ==
    /\ (encrypted.kind # "none" /\ Len(enc_key) # AesKeyLength) =>
           /\ encrypted.kind = "Err"
           /\ encrypted.error.variant = "InvalidKeyMaterial"
           /\ encrypted.value = <<>> /\ encrypted_data = <<>>
    /\ (Decrypted /\ Len(encrypted_data) < NonceLength) =>
           decrypted.kind = "Err" /\ decrypted.error.variant = "Encryption"
    /\ TagCheckFails => decrypted = AeadError

C27_Witness ==
    /\ Decrypted
    /\ blob_change = "truncated"
    /\ Len(encrypted_data) < NonceLength
    /\ Len(dec_key) # AesKeyLength
    /\ decrypted.error.variant = "Encryption"

\* C27 (as stated): encrypt_data under a key that is not 32 bytes long fails with
\* the error kind with which decrypt_data fails on a short blob and on a failed tag
\* verification, and returns no output; a wrong 32-byte key and a tampered blob give
\* the same error.
C27_OneErrorKind ==
    /\ (encrypted.kind # "none" /\ Len(enc_key) # AesKeyLength) =>
           /\ encrypted.kind = "Err"
           /\ encrypted.error.variant = AeadError.error.variant
           /\ encrypted.value = <<>> /\ encrypted_data = <<>>
    /\ (Decrypted /\ Len(encrypted_data) < NonceLength /\ Len(dec_key) = AesKeyLength) =>
           decrypted.kind = "Err" /\ decrypted.error.variant = AeadError.error.variant
    /\ TagCheckFails => decrypted = AeadError

SameArguments(a, b) ==
    a.password = b.password /\ a.salt = b.salt /\ a.method = b.method

C29_HkdfNotSupported ==
    \A i \in DOMAIN derive_log :
        derive_log[i].method = "HKDF" =>
            /\ derive_log[i].result.kind = "Err"
            /\ derive_log[i].result.error =
                   [variant |-> "KeyDerivation", message |-> "HKDF not yet implemented"]
            /\ derive_log[i].result.value = <<>>

C29_Witness ==
    \E i \in DOMAIN derive_log :
        /\ derive_log[i].method = "HKDF"
        /\ Len(derive_log[i].salt) >= Argon2MinSaltLength
        /\ derive_log[i].result.kind = "Err"

\* the bans a step removes, and the bans that have expired before the step
RemovedBans == DOMAIN banned_addresses \ DOMAIN banned_addresses'
ExpiredBans == {a \in DOMAIN banned_addresses : banned_addresses[a] < utc_now}

\* C30: a cleanup_expired step removes exactly the bans whose expiry is earlier than
\* the current time and leaves every other ban as it is; a step of validate_transaction,
\* check_rate_limit, add_to_whitelist or add_to_blacklist, or any other step, removes
\* no ban.
C30_OnlyCleanupRemovesExpired ==
    [][/\ CleanupExpired =>
             /\ RemovedBans = ExpiredBans
             /\ \A a \in DOMAIN banned_addresses' :
                    /\ a \in DOMAIN banned_addresses
                    /\ banned_addresses'[a] = banned_addresses[a]
       /\ ~CleanupExpired => RemovedBans = {}]_vars

\* an expired ban is gone and a ban that has not expired is kept, after
\* check_rate_limit and validate_transaction were called
C30_Witness ==
    /\ \E a \in Addresses :
           /\ a \notin DOMAIN banned_addresses
           /\ last_ban[a] # -1 /\ last_ban[a] < utc_now
    /\ \E a \in DOMAIN banned_addresses : banned_addresses[a] >= utc_now
    /\ rl_result[1] = "Ok"
    /\ whitelist # {} /\ blacklist # {}

\* C31: a get for a key returns the data of the latest set of that key as long as
\* no more than cache_ttl has passed since that set, and returns none once more
\* than cache_ttl has passed, whether or not cleanup_expired was called.
C31_EntryExpiresAfterTtl ==
    (cache_get.returned /\ cache_get.key \in DOMAIN last_set) =>
        LET s == last_set[cache_get.key]
        IN  IF cache_now - s.at > cache_ttl
            THEN cache_get.result = None
            ELSE cache_get.result = Some(s.data)

\* the get_connection calls for an endpoint so far, in order
GetsOf(endpoint) ==
    SelectSeq(pool_log, LAMBDA c : c.op = "get_connection" /\ c.endpoint = endpoint)

\* C32: with no connection returned, the first connection_pool_size get_connection
\* calls for an endpoint of a new pool each yield a connection id and the next one
\* yields none.
C32_FirstKThenNone ==
    (\A i \in DOMAIN pool_log : pool_log[i].op = "get_connection") =>
        \A endpoint \in Endpoints :
            \A i \in DOMAIN GetsOf(endpoint) :
                IF i <= connection_pool_size
                THEN GetsOf(endpoint)[i].result # None
                ELSE i = connection_pool_size + 1 => GetsOf(endpoint)[i].result = None

Delays == {i \in DOMAIN retry_log : retry_log[i].op = "delay"}
LastLogged == retry_log[Len(retry_log)]

\* C33: execute_with_retry runs the operation at most max_retries + 1 times; a
\* success is the last thing it does and is what it returns; when every attempt has
\* failed it returns the error of the last attempt, after max_retries + 1 attempts;
\* every delay lies between two attempts, none after the last one.
C33_BoundedAttemptsAndDelays ==
    /\ Cardinality(Attempts) <= max_retries + 1
    /\ \A i \in Attempts : retry_log[i].outcome = "ok" => i = Len(retry_log)
    /\ \A i \in Delays : i - 1 \in Attempts /\ (i + 1 \in DOMAIN retry_log => i + 1 \in Attempts)
    /\ retry_pc = "done" =>
           /\ LastLogged.op = "attempt"
           /\ retry_result.kind = "Ok" <=> LastLogged.outcome = "ok"
           /\ retry_result.kind = "Err" =>
                  /\ retry_result.error = LastLogged.outcome
                  /\ Cardinality(Attempts) = max_retries + 1
                  /\ Cardinality(Delays) = max_retries

C33_Witness ==
    /\ retry_pc = "done"
    /\ max_retries = 2
    /\ retry_result.kind = "Err"
    /\ Cardinality(Attempts) = 3
    /\ Cardinality(Delays) = 2

SnipeSends == {i \in DOMAIN events : events[i] \in {"send_snipe:ok", "send_snipe:err"}}

\* C34: in the sequential fallback the snipe transaction is sent only after the
\* launch send has succeeded and the settle delay has passed after it; when the
\* launch send has failed, the snipe transaction is not sent and the call returns an
\* error.
C34_SnipeAfterLaunchAndSettle ==
    /\ \A j \in SnipeSends :
           \E i \in 1..(j - 1) :
               /\ events[i] = "send_launch:ok"
               /\ \E k \in (i + 1)..(j - 1) : events[k] = "settle_delay"
    /\ Performed("send_launch:err") =>
           /\ SnipeSends = {}
           /\ ls_pc = "done"
           /\ ls_outcome.kind = "Err"
           /\ ls_outcome.snipe_signature = None

C34_Witness ==
    /\ Performed("send_launch:err")
    /\ ls_pc = "done"
    /\ ls_outcome.kind = "Err"
    /\ events[Len(events)] = "send_launch:err"

\* the signature send_transaction(&launch_transaction) returned, which the fallback
\* branch does not bind to a name
LaunchSendSignature == "sig_launch"

\* C37: when both sends of the sequential fallback have succeeded, the response
\* carries the signature of the launch send as launch_signature and the signature
\* of the snipe send as snipe_signature.
C37_FallbackSignatures ==
    (ls_outcome.kind = "Ok" /\ ~ls_outcome.mev_protected) =>
        /\ ls_outcome.launch_signature = Some(LaunchSendSignature)
        /\ ls_outcome.snipe_signature = Some("sig_snipe")

\* C35: validate_transaction rejects a transfer as banned exactly when its sender
\* or its recipient has an entry in the ban map, whether or not the expiry of the
\* entry has passed; once cleanup_expired has removed the entry, the address is no
\* longer rejected for the ban.
C35_BanIsMembershipOnly ==
    Validated =>
        /\ (\E a \in {validation.from, validation.to} : a \in DOMAIN banned_addresses)
               => validation.result = "Banned"
        /\ (\A a \in {validation.from, validation.to} : a \notin DOMAIN banned_addresses)
               => validation.result # "Banned"

\* a transfer from an address without a ban to an address whose ban has expired and
\* has not been cleaned up is rejected as banned
C35_Witness ==
    /\ Validated
    /\ validation.result = "Banned"
    /\ validation.to \in DOMAIN banned_addresses
    /\ banned_addresses[validation.to] < utc_now
    /\ validation.from \notin DOMAIN banned_addresses

\* C36: a validate_transaction call, accepting or rejecting, leaves the ban map, the
\* whitelist, the blacklist, the transaction history and the rate windows as they
\* were, and the same call made again right after it returns the same result.
C36_ValidateIsReadOnly ==
    [][\A from \in Addresses, to \in Addresses, amount \in Amounts :
           (/\ validation' # validation
            /\ validation' = [from |-> from, to |-> to, amount |-> amount,
                              result |-> ValidateResult(from, to, amount)])
           => /\ UNCHANGED <<banned_addresses, whitelist, blacklist, whitelist_enabled,
                             transaction_history, request_tracker, transaction_tracker>>
              /\ ValidateResult(from, to, amount)' = ValidateResult(from, to, amount)]_vars

\* a transfer of a positive amount was accepted while a ban, a blacklist entry, a
\* whitelist entry and a rate window exist
C36_Witness ==
    /\ Validated
    /\ validation.result = "Ok"
    /\ validation.amount > 0
    /\ DOMAIN banned_addresses # {}
    /\ whitelist # {} /\ blacklist # {}
    /\ DOMAIN request_tracker # {}

\* C38: when execute_bundle_buy with MEV protection over N wallets has posted its
\* bundle and the relay has accepted it, the result the command returns reports
\* success_count = N and error_count = 0.
C38_AcceptedBundleCountsAllWallets ==
    (/\ UseMevBundle
     /\ bundle_wallets >= 1
     /\ eb_pc = "done"
     /\ \A i \in Wallets : AcceptedByRelay(SwapTx(i))) =>
        /\ eb_outcome.kind = "Ok"
        /\ eb_outcome.success_count = bundle_wallets
        /\ eb_outcome.error_count = 0

BuildOk(i) ==
    \E k \in DOMAIN eb_events :
        eb_events[k].op = "build" /\ eb_events[k].wallet = i /\ eb_events[k].ok
BuildFailed ==
    \E k \in DOMAIN eb_events : eb_events[k].op = "build" /\ ~eb_events[k].ok
Broadcast ==
    \/ \E k \in DOMAIN eb_events : eb_events[k].op = "send"
    \/ relay_requests # <<>>

\* C39: execute_bundle_buy has sent a transaction or posted a bundle only when the
\* transaction of every wallet was decrypted, built and signed before; when the
\* build of some wallet failed, the call has returned an error and has neither sent
\* a transaction nor posted a bundle, with and without MEV protection.
C39_NothingSentBeforeAllBuilt ==
    /\ Broadcast =>
           /\ Len(transactions) = bundle_wallets
           /\ \A i \in Wallets : BuildOk(i)
           /\ \A k \in DOMAIN eb_events :
                  eb_events[k].op = "send" =>
                      \A i \in Wallets :
                          \E j \in 1..(k - 1) :
                              /\ eb_events[j].op = "build"
                              /\ eb_events[j].wallet = i
                              /\ eb_events[j].ok
    /\ BuildFailed =>
           /\ eb_pc = "done"
           /\ eb_outcome.kind = "Err"
           /\ ~Broadcast

\* the build of the last of several wallets failed after the builds of the others
\* succeeded, and the call returned its error
C39_Witness ==
    /\ bundle_wallets = MaxWallets
    /\ \A i \in 1..(MaxWallets - 1) : BuildOk(i)
    /\ BuildFailed
    /\ eb_pc = "done"
    /\ eb_outcome.kind = "Err"
    /\ ~Broadcast

\* transfer_tokens got as far as the decryption of the private key
TransferReachedDecryption ==
    /\ wt_pc = "done"
    /\ transfer_result \in {"Ok", "Err", "Encryption"}

\* C40: a transfer_tokens call with the blob of a wallet that generate_wallet made
\* with password p, and with the same password p, decrypts the blob to the private
\* key that generate_wallet encrypted.
C40_WalletUsableWithSamePassword ==
    (TransferReachedDecryption /\ transfer_password = wallet_password) =>
        transfer_private_key = OkResult(wallet_private_key)
====
